---- MODULE Spec2Model ----
(***************************************************************************)
(* Model of the discord-jira-bot orchestration core:                       *)
(*   - the n8n webhook client (withRetry / executeRequest),                *)
(*   - the three-tier forum resolver (findUserForum / findTicketThread),   *)
(*   - the reaction handlers and /task commands with their Discord-side    *)
(*     reconciliation (forumService, threadService, taskManagementService).*)
(* Strings are modelled as sequences of one-character strings wherever the *)
(* code inspects their characters (usernames, forum names, thread names).  *)
(***************************************************************************)
EXTENDS Integers, Sequences, FiniteSets, TLC

VARIABLES
    \* ---- webhook client (n8nService) ----
    rq,         \* the request being executed: method, body/queryParams presence
    rPc,        \* position inside withRetry: idle, attempt, sleep, returned, threw
    rAttempt,   \* loop variable `attempt` of withRetry
    rDelay,     \* delay passed to the pending sleep()
    rLastError, \* `lastError.message`
    rTrace,     \* what the client did so far: fetch calls and sleeps, in order
    rResult,    \* the value executeRequest resolved to
    \* ---- forum resolver (userLookupService) called on its own ----
    fCategory,  \* the category: its child channels, in the cache's iteration order
    fUserId,    \* argument discordUserId (NoUser for null)
    fUser,      \* argument discordUser, a guild member (NoUser for null)
    fKey,       \* argument ticketKey
    fPc,        \* input, done
    fResult     \* the value findUserForum resolved to

fvars == <<fCategory, fUserId, fUser, fKey, fPc, fResult>>

VARIABLES
    \* ---- orchestrator: handlers in flight and the Discord / Jira world ----
    ev,         \* each triggering event's handling task: position and locals
    chans,      \* the guild's channels, in cache order: [cat, name, type, allow]
    threads,    \* every thread ever created: [parent, name, archived, deleted]
    timers,     \* pending setTimeout callbacks of threadService
    jira        \* the ticket at the backend: [status, assignee]

ovars == <<ev, chans, threads, timers, jira>>

VARIABLES
    locks,      \* processingLocks of reactionLock: entries [key, ts]
    now,        \* Date.now()
    lRet,       \* the last call made on the lock module and what it returned
    held        \* history: the pairs acquired and not released since

lvars == <<locks, now, lRet, held>>

VARIABLES
    rx,         \* the reaction event handed to handleReaction
    route       \* what handleReaction did with it: the handler called and the key

hvars == <<rx, route>>

VARIABLES
    uname,      \* user.username handed to the forum-name sanitization
    sanitized   \* the results of applying the sanitization, in order

svars == <<uname, sanitized>>

wvars == <<rq, rPc, rAttempt, rDelay, rLastError, rTrace, rResult>>

Null == "null"

\* No key found (extractTicketKey's null).
NoKey == <<>>

\* No reaction has been handed to handleReaction; nothing was routed.
NoRoute == [handler |-> "none", key |-> NoKey]
\* handleReaction has not run on the reaction yet.
Pending == [handler |-> "pending", key |-> NoKey]
NoReaction ==
    [emoji |-> "none", gate |-> "none", parentId |-> 0, parentCat |-> "none",
     name |-> <<>>, embeds |-> <<>>]

\* No call has been made on the lock module yet.
NoCall == [op |-> "none", ticketKey |-> <<>>, action |-> "none", ret |-> FALSE, age |-> -1]
\* "No envelope yet": the value of a result variable before the call resolves.
\* An error text: the message, and for the client's final error the words put
\* before it (`Request failed after ${maxAttempts} attempts: ${message}`).
ErrText(msg) == [prefix |-> "", attempts |-> 0, msg |-> msg]
NoErr == ErrText("")
NoResult == [success |-> "none", error |-> NoErr]

\* ------------------------------------------------------------------------
\* Webhook client: src/services/n8nService.js
\* ------------------------------------------------------------------------

\* RETRY_CONFIG.maxAttempts
maxAttempts == 3
\* RETRY_CONFIG.baseDelayMs
baseDelayMs == 1000

Methods == {"GET", "POST", "DELETE"}

\* The value of a body's `success` field as the backend sent it.
BodySuccess == {"absent", "true", "false", "null"}
BodyError == {"absent", "Bad Request"}

\* What one HTTP exchange can produce: fetch rejects, or a response whose
\* status is 2xx or not and whose body is unparseable, the JSON value null,
\* or a JSON object.
HttpOutcomes ==
    {[kind |-> "transport", ok |-> FALSE, json |-> "none", success |-> "absent", error |-> "absent"]}
    \cup {[kind |-> "response", ok |-> k, json |-> j, success |-> "absent", error |-> "absent"] :
            k \in BOOLEAN, j \in {"unparseable", "null"}}
    \cup {[kind |-> "response", ok |-> k, json |-> "object", success |-> s, error |-> e] :
            k \in BOOLEAN, s \in BodySuccess, e \in BodyError}

\* An attempt that fails: it makes the operation closure throw.
FailingOutcome(o) ==
    \/ o.kind = "transport"
    \/ o.json # "object"
    \/ ~o.ok

\* fetchOptions.body is set only for POST and DELETE with a body.
FetchOptions(req) ==
    [method |-> req.method,
     body |-> req.hasBody /\ req.method \in {"POST", "DELETE"},
     query |-> req.hasQuery]

\* The operation closure of executeRequest: one fetch, parse, normalise.
\* Result: it threw (with the error's message) or it returned an envelope.
Operation(req, o) ==
    IF o.kind = "transport"
    THEN [threw |-> TRUE, msg |-> "Network error", value |-> NoResult]
    ELSE IF o.json = "unparseable"
    THEN [threw |-> TRUE, msg |-> "Failed to parse response", value |-> NoResult]
    ELSE IF o.json = "null"
    \* data is null: reading data.success / data.error is a TypeError
    THEN [threw |-> TRUE, msg |-> "TypeError", value |-> NoResult]
    ELSE IF ~o.ok
    THEN [threw |-> TRUE,
          msg |-> IF o.error # "absent" THEN o.error ELSE "HTTP status",
          value |-> NoResult]
    \* { success: data.success !== false, ...data }: the spread comes last,
    \* so a success field of the body overrides the computed one.
    ELSE [threw |-> FALSE, msg |-> Null,
          value |-> [success |-> IF o.success = "absent" THEN "true" ELSE o.success,
                     error |-> IF o.error = "absent" THEN NoErr ELSE ErrText(o.error)]]

\* The text `Request failed after ${maxAttempts} attempts: ${lastError.message}`
FailedAfter(msg) ==
    [prefix |-> "Request failed after", attempts |-> maxAttempts, msg |-> msg]

\* A mutant of withRetryCatch: the wait is also taken after the last attempt.
withRetryCatch_waitAfterLast(attempt) ==
    IF attempt <= maxAttempts
    THEN [sleep |-> TRUE, delay |-> baseDelayMs * 2 ^ (attempt - 1)]
    ELSE [sleep |-> FALSE, delay |-> 0]

\* The catch branch of withRetry after a failed attempt number `attempt`:
\* whether it sleeps, and for how long.
withRetryCatch(attempt) ==
    IF attempt < maxAttempts
    THEN [sleep |-> TRUE, delay |-> baseDelayMs * 2 ^ (attempt - 1)]
    ELSE [sleep |-> FALSE, delay |-> 0]

\* A mutant of withRetryExhausted: the last error is rethrown to the caller.
withRetryExhausted_rethrow(msg) == [pc |-> "threw", result |-> NoResult]

\* The code after withRetry's loop: the failure envelope is returned.
withRetryExhausted(msg) ==
    [pc |-> "returned", result |-> [success |-> "false", error |-> FailedAfter(msg)]]

\* The head of withRetry's for loop, entered with the incremented attempt.
withRetryLoop(attempt, msg) ==
    IF attempt <= maxAttempts
    THEN [pc |-> "attempt", result |-> NoResult]
    ELSE withRetryExhausted(msg)

\* ------------------------------------------------------------------------
\* Names: usernames, forum names, ticket keys, thread names
\* ------------------------------------------------------------------------

NoUser == "none"
UserIds == {"u1", "u2", "u3"}

\* user.username of each Discord user of the model.  u1 and u2 differ but
\* sanitize to the same string.
Username(u) ==
    CASE u = "u1" -> <<"A", "b">>
      [] u = "u2" -> <<"a", ".", "b">>
      [] u = "u3" -> <<"c", "1">>
      [] OTHER -> <<>>

UpperCase == <<"A", "B", "C", "T", "U">>
LowerCase == <<"a", "b", "c", "t", "u">>

\* String.prototype.toLowerCase on one character.
ToLower(c) ==
    IF \E i \in 1..Len(UpperCase) : UpperCase[i] = c
    THEN LowerCase[CHOOSE i \in 1..Len(UpperCase) : UpperCase[i] = c]
    ELSE c

\* The characters the pattern [^a-z0-9] leaves in place.
AlphaNum == {"a", "b", "c", "e", "k", "r", "s", "t", "u", "z", "0", "1", "2", "3"}

RECURSIVE LowerAll(_)
LowerAll(str) ==
    IF str = <<>> THEN <<>> ELSE <<ToLower(Head(str))>> \o LowerAll(Tail(str))

\* A mutant of Sanitize: the characters are stripped before lowercasing.
Sanitize_stripFirst(str) == LowerAll(SelectSeq(str, LAMBDA c : c \in AlphaNum))

\* username.toLowerCase().replace(/[^a-z0-9]/g, '')
Sanitize(str) == SelectSeq(LowerAll(str), LAMBDA c : c \in AlphaNum)

\* `tasks-${sanitized username}`
ForumNameOf(str) == <<"t", "a", "s", "k", "s", "-">> \o Sanitize(str)

\* Ticket keys of the model; K-1 is a string prefix of K-12.
KeyK1 == <<"K", "-", "1">>
KeyK12 == <<"K", "-", "1", "2">>
TicketKeys == {KeyK1, KeyK12}

\* `${ticketKey}: ${title}`
ThreadNameOf(key, title) == key \o <<":", " ">> \o title

\* String.prototype.startsWith
StartsWith(str, prefix) ==
    /\ Len(str) >= Len(prefix)
    /\ SubSeq(str, 1, Len(prefix)) = prefix

\* ------------------------------------------------------------------------
\* Forum resolver: src/services/userLookupService.js, threadService.js
\* A category is the sequence of its child channels in iteration order; a
\* channel is [id, name, type, allow, active, archived, activeOk, archivedOk]:
\* allow is the set of user ids whose permission overwrite allows
\* ViewChannel, active/archived are the thread lists fetchActive and
\* fetchArchived return (sequences of [id, name]), and activeOk/archivedOk
\* tell whether those fetches resolve or reject.
\* ------------------------------------------------------------------------

NoThread == 0
NoForum == 0

\* Collection.find: the index of the first element satisfying P, 0 if none.
FindFirst(seq, P(_)) ==
    IF \E i \in 1..Len(seq) : P(seq[i])
    THEN CHOOSE i \in 1..Len(seq) : P(seq[i]) /\ \A j \in 1..(i - 1) : ~P(seq[j])
    ELSE 0

\* threads.find(t => t.name.startsWith(ticketKey)): the thread's id, or NoThread.
FindInThreads(list, ticketKey) ==
    LET i == FindFirst(list, LAMBDA t : StartsWith(t.name, ticketKey))
    IN IF i = 0 THEN NoThread ELSE list[i].id

\* A mutant of findTicketThread: the archived list is never read.
findTicketThread_activeOnly(forum, ticketKey) ==
    IF ~forum.activeOk THEN NoThread
    ELSE FindInThreads(forum.active, ticketKey)

\* findTicketThread(forum, ticketKey): active threads first, archived threads
\* only when the active list has no match; any fetch error gives null.
findTicketThread(forum, ticketKey) ==
    IF ~forum.activeOk THEN NoThread
    ELSE IF FindInThreads(forum.active, ticketKey) # NoThread
    THEN FindInThreads(forum.active, ticketKey)
    ELSE IF ~forum.archivedOk THEN NoThread
    ELSE FindInThreads(forum.archived, ticketKey)

\* Tier 1: the first forum channel named tasks-<sanitized username>.
Tier1(category, discordUser) ==
    FindFirst(category, LAMBDA ch :
        ch.name = ForumNameOf(Username(discordUser)) /\ ch.type = "forum")

\* Tier 2: the first forum channel whose overwrites allow the user ViewChannel.
Tier2(category, discordUserId) ==
    FindFirst(category, LAMBDA ch : ch.type = "forum" /\ discordUserId \in ch.allow)

\* The body of Tier 3's loop for one forum: both lists are fetched first; an
\* error in either skips the forum.
Tier3Search(forum, ticketKey) ==
    IF ~forum.activeOk \/ ~forum.archivedOk THEN NoThread
    ELSE IF FindInThreads(forum.active, ticketKey) # NoThread
    THEN FindInThreads(forum.active, ticketKey)
    ELSE FindInThreads(forum.archived, ticketKey)

\* A mutant of Tier3: only the first forum of the category is examined.
Tier3_firstOnly(category, ticketKey) ==
    IF /\ Len(category) >= 1
       /\ category[1].type = "forum"
       /\ Tier3Search(category[1], ticketKey) # NoThread
    THEN 1 ELSE NoForum

\* A mutant of Tier3: an error while fetching a forum's threads ends the scan.
Tier3_abortOnError(category, ticketKey) ==
    LET hit == FindFirst(category, LAMBDA ch :
                   ch.type = "forum" /\ Tier3Search(ch, ticketKey) # NoThread)
        err == FindFirst(category, LAMBDA ch :
                   ch.type = "forum" /\ (~ch.activeOk \/ ~ch.archivedOk))
    IN IF err # 0 /\ (hit = 0 \/ err < hit) THEN NoForum ELSE hit

\* Tier 3: the first forum channel, in iteration order, holding a thread
\* whose name starts with the ticket key.
Tier3(category, ticketKey) ==
    FindFirst(category, LAMBDA ch :
        ch.type = "forum" /\ Tier3Search(ch, ticketKey) # NoThread)

\* A mutant of findUserForum: the permission tier is tried before the name tier.
findUserForum_permissionFirst(category, discordUserId, discordUser, ticketKey) ==
    LET t2 == IF discordUserId # NoUser THEN Tier2(category, discordUserId) ELSE NoForum
        t1 == IF t2 = NoForum /\ discordUser # NoUser
              THEN Tier1(category, discordUser) ELSE NoForum
        uf == IF t2 # NoForum THEN t2 ELSE t1
        t3 == IF uf = NoForum THEN Tier3(category, ticketKey) ELSE NoForum
    IN [userForum |-> IF uf # NoForum THEN uf ELSE t3,
        ticketThread |-> IF t3 # NoForum THEN Tier3Search(category[t3], ticketKey)
                         ELSE NoThread,
        tiers |-> (IF discordUserId # NoUser THEN {2} ELSE {})
                  \cup (IF t2 = NoForum /\ discordUser # NoUser THEN {1} ELSE {})
                  \cup (IF uf = NoForum THEN {3} ELSE {})]

\* A mutant of findUserForum: the last-resort search is made only for a
\* user whose identity is known.
findUserForum_needsIdentity(category, discordUserId, discordUser, ticketKey) ==
    LET known == discordUserId # NoUser \/ discordUser # NoUser
        t1 == IF discordUser # NoUser THEN Tier1(category, discordUser) ELSE NoForum
        t2 == IF t1 = NoForum /\ discordUserId # NoUser
              THEN Tier2(category, discordUserId) ELSE NoForum
        uf == IF t1 # NoForum THEN t1 ELSE t2
        t3 == IF uf = NoForum /\ known THEN Tier3(category, ticketKey) ELSE NoForum
    IN [userForum |-> IF uf # NoForum THEN uf ELSE t3,
        ticketThread |-> IF t3 # NoForum THEN Tier3Search(category[t3], ticketKey)
                         ELSE NoThread,
        tiers |-> (IF discordUser # NoUser THEN {1} ELSE {})
                  \cup (IF t1 = NoForum /\ discordUserId # NoUser THEN {2} ELSE {})
                  \cup (IF uf = NoForum /\ known THEN {3} ELSE {})]

\* findUserForum(category, discordUserId, discordUser, ticketKey):
\* {userForum, ticketThread}, with the set of tiers it consulted.
findUserForum(category, discordUserId, discordUser, ticketKey) ==
    LET t1 == IF discordUser # NoUser THEN Tier1(category, discordUser) ELSE NoForum
        t2 == IF t1 = NoForum /\ discordUserId # NoUser
              THEN Tier2(category, discordUserId) ELSE NoForum
        uf == IF t1 # NoForum THEN t1 ELSE t2
        t3 == IF uf = NoForum THEN Tier3(category, ticketKey) ELSE NoForum
    IN [userForum |-> IF uf # NoForum THEN uf ELSE t3,
        ticketThread |-> IF t3 # NoForum THEN Tier3Search(category[t3], ticketKey)
                         ELSE NoThread,
        tiers |-> (IF discordUser # NoUser THEN {1} ELSE {})
                  \cup (IF t1 = NoForum /\ discordUserId # NoUser THEN {2} ELSE {})
                  \cup (IF uf = NoForum THEN {3} ELSE {})]

NoRequest == [method |-> Null, hasBody |-> FALSE, hasQuery |-> FALSE]

WInit ==
    /\ rq = NoRequest
    /\ rPc = "idle"
    /\ rAttempt = 0
    /\ rDelay = 0
    /\ rLastError = Null
    /\ rTrace = <<>>
    /\ rResult = NoResult

\* executeRequest(method, endpoint, options) is called: withRetry starts its
\* loop with attempt = 1.
executeRequest(m, hb, hq) ==
    /\ rPc = "idle"
    /\ rq' = [method |-> m, hasBody |-> hb, hasQuery |-> hq]
    /\ rPc' = "attempt"
    /\ rAttempt' = 1
    /\ UNCHANGED <<rDelay, rLastError, rTrace, rResult, fvars, ovars, lvars, hvars, svars>>

\* A mutant of withRetryAttempt: an envelope whose success is "false" is
\* retried like a thrown error.
withRetryAttempt_retryUnsuccessful(o) ==
    /\ rPc = "attempt"
    /\ LET r == Operation(rq, o)
           again == r.threw \/ r.value.success = "false"
           c == withRetryCatch(rAttempt)
           l == withRetryLoop(rAttempt + 1, r.msg)
       IN /\ rTrace' = Append(rTrace, [ev |-> "fetch", n |-> rAttempt, ms |-> 0,
                                       failed |-> r.threw, opts |-> FetchOptions(rq),
                                       body |-> IF r.threw THEN "none" ELSE o.success])
          /\ IF ~again
             THEN /\ rPc' = "returned"
                  /\ rResult' = r.value
                  /\ UNCHANGED <<rLastError, rDelay, rAttempt>>
             ELSE IF c.sleep
             THEN /\ rLastError' = r.msg
                  /\ rPc' = "sleep"
                  /\ rDelay' = c.delay
                  /\ UNCHANGED <<rResult, rAttempt>>
             ELSE /\ rLastError' = r.msg
                  /\ rAttempt' = rAttempt + 1
                  /\ rPc' = l.pc
                  /\ rResult' = l.result
                  /\ UNCHANGED rDelay
    /\ UNCHANGED <<rq, fvars, ovars, lvars, hvars, svars>>

\* One iteration of withRetry's loop body: await operation(), then either
\* return its result or run the catch branch.
withRetryAttempt(o) ==
    /\ rPc = "attempt"
    /\ LET r == Operation(rq, o)
           c == withRetryCatch(rAttempt)
           l == withRetryLoop(rAttempt + 1, r.msg)
       IN /\ rTrace' = Append(rTrace, [ev |-> "fetch", n |-> rAttempt, ms |-> 0,
                                       failed |-> r.threw, opts |-> FetchOptions(rq),
                                       body |-> IF r.threw THEN "none" ELSE o.success])
          /\ IF ~r.threw
             THEN /\ rPc' = "returned"
                  /\ rResult' = r.value
                  /\ UNCHANGED <<rLastError, rDelay, rAttempt>>
             ELSE IF c.sleep
             THEN /\ rLastError' = r.msg
                  /\ rPc' = "sleep"
                  /\ rDelay' = c.delay
                  /\ UNCHANGED <<rResult, rAttempt>>
             ELSE /\ rLastError' = r.msg
                  /\ rAttempt' = rAttempt + 1
                  /\ rPc' = l.pc
                  /\ rResult' = l.result
                  /\ UNCHANGED rDelay
    /\ UNCHANGED <<rq, fvars, ovars, lvars, hvars, svars>>

\* await sleep(delay) completes; the loop increments attempt and tests it.
withRetrySleep ==
    /\ rPc = "sleep"
    /\ LET l == withRetryLoop(rAttempt + 1, rLastError)
       IN /\ rTrace' = Append(rTrace, [ev |-> "sleep", n |-> rAttempt, ms |-> rDelay,
                                       failed |-> FALSE, opts |-> FetchOptions(rq),
                                       body |-> "none"])
          /\ rAttempt' = rAttempt + 1
          /\ rPc' = l.pc
          /\ rResult' = l.result
    /\ UNCHANGED <<rq, rDelay, rLastError, fvars, ovars, lvars, hvars, svars>>

NextWebhook ==
    \/ \E m \in Methods, hb \in BOOLEAN, hq \in BOOLEAN : executeRequest(m, hb, hq)
    \/ \E o \in HttpOutcomes : withRetryAttempt(o)
    \/ withRetrySleep

\* ---- the resolver on its own: inputs drawn from bounded sets ----

\* The largest number of child channels of a category.
MaxForums == 2

ForumNames == {ForumNameOf(Username("u1")), ForumNameOf(Username("u3"))}
AllowSets == {{}, {"u1"}, {"u3"}}

\* The shapes a child channel is drawn from: a forum whose thread lists can
\* be fetched (empty, or holding one thread), a forum whose thread lists
\* cannot be fetched, or a text channel.
ChannelShapes ==
    {[name |-> n, type |-> "forum", allow |-> a, content |-> c, ok |-> TRUE] :
        n \in ForumNames, a \in AllowSets,
        c \in {"none", "K1 active", "K1 archived", "K12 active"}}
    \cup {[name |-> n, type |-> "forum", allow |-> a, content |-> "K1 active", ok |-> FALSE] :
        n \in ForumNames, a \in AllowSets}
    \cup {[name |-> n, type |-> "text", allow |-> a, content |-> "none", ok |-> TRUE] :
        n \in ForumNames, a \in {{}, {"u1"}}}

MkThread(i, key) == <<[id |-> 10 * i + 1, name |-> ThreadNameOf(key, <<"F">>)]>>

MkChannel(i, sh) ==
    [id |-> i, name |-> sh.name, type |-> sh.type, allow |-> sh.allow,
     active |-> IF sh.content = "K1 active" THEN MkThread(i, KeyK1)
                ELSE IF sh.content = "K12 active" THEN MkThread(i, KeyK12)
                ELSE <<>>,
     archived |-> IF sh.content = "K1 archived" THEN MkThread(i, KeyK1) ELSE <<>>,
     activeOk |-> sh.ok, archivedOk |-> sh.ok]

\* (discordUserId, discordUser) as lookupDiscordUser produces them: nothing
\* resolved, only the id resolved, or the id and the guild member.
IdentityPairs ==
    {<<NoUser, NoUser>>} \cup {<<u, NoUser>> : u \in {"u1", "u3"}}
    \cup {<<u, u>> : u \in {"u1", "u3"}}

NoLookup == [userForum |-> NoForum, ticketThread |-> NoThread, tiers |-> {}]

FInit ==
    /\ \E n \in 0..MaxForums : \E shapes \in [1..n -> ChannelShapes] :
          fCategory = [i \in 1..n |-> MkChannel(i, shapes[i])]
    /\ \E idp \in IdentityPairs : fUserId = idp[1] /\ fUser = idp[2]
    /\ fKey \in {KeyK1}
    /\ fPc = "input"
    /\ fResult = NoLookup

\* findUserForum is called on the inputs and resolves.
FindUserForum ==
    /\ fPc = "input"
    /\ fResult' = findUserForum(fCategory, fUserId, fUser, fKey)
    /\ fPc' = "done"
    /\ UNCHANGED <<fCategory, fUserId, fUser, fKey, wvars, ovars, lvars, hvars, svars>>

\* findTicketThread is called on the i-th channel of the category.
FindTicketThread(i) ==
    /\ fPc = "input"
    /\ i \in 1..Len(fCategory)
    /\ fResult' = [userForum |-> i,
                   ticketThread |-> findTicketThread(fCategory[i], fKey),
                   tiers |-> {}]
    /\ fPc' = "thread"
    /\ UNCHANGED <<fCategory, fUserId, fUser, fKey, wvars, ovars, lvars, hvars, svars>>

\* ------------------------------------------------------------------------
\* Orchestrator: the Discord world the handlers act on
\* ------------------------------------------------------------------------

\* The number of triggering events handled (possibly concurrently).
MaxEvents == 2
EventIds == 1..MaxEvents

\* config.channels.tasksForReview and an unassigned forum
\* (config.channels.codeUnassigned): their places in chans.
ReviewForum == 1
UnassignedForum == 2

\* TIMEOUTS of utils/constants.js
THREAD_DELETE_SHORT == 2000
THREAD_DELETE_MEDIUM == 2500
THREAD_DELETE_LONG == 3000

\* Guild members holding config.roles.pm.
PMs == {"u1"}
Actors == {"u1", "u3"}

\* The one ticket the events of the model are about.
EventKey == KeyK1

\* The active (arch = FALSE) or archived (arch = TRUE) threads of channel i,
\* as fetchActive / fetchArchived return them.
ThreadsOf(i, arch) ==
    LET f[k \in 0..Len(threads)] ==
            IF k = 0 THEN <<>>
            ELSE IF threads[k].parent = i /\ ~threads[k].deleted /\ threads[k].archived = arch
                 THEN Append(f[k - 1], [id |-> k, name |-> threads[k].name])
                 ELSE f[k - 1]
    IN f[Len(threads)]

\* Channel i as the resolver sees it; the fetches of the channels in `bad`
\* reject.
ChannelView(i, bad) ==
    [id |-> i, name |-> chans[i].name, type |-> chans[i].type, allow |-> chans[i].allow,
     active |-> ThreadsOf(i, FALSE), archived |-> ThreadsOf(i, TRUE),
     activeOk |-> i \notin bad, archivedOk |-> i \notin bad]

\* category.children.cache of the category `cat`, in cache order.
CategoryView(cat, bad) ==
    LET f[k \in 0..Len(chans)] ==
            IF k = 0 THEN <<>>
            ELSE IF chans[k].cat = cat THEN Append(f[k - 1], ChannelView(k, bad))
                 ELSE f[k - 1]
    IN f[Len(chans)]

WorkingForums == {i \in 1..Len(chans) : chans[i].cat = "working"}

\* title.replace(/^[A-Z]+-\d+:\s*/, ''): a leading "<key>: " is removed.
CleanTitle(title) ==
    IF \E k \in TicketKeys : StartsWith(title, k \o <<":", " ">>)
    THEN LET k == CHOOSE k \in TicketKeys : StartsWith(title, k \o <<":", " ">>)
         IN SubSeq(title, Len(k) + 3, Len(title))
    ELSE title

NoEvent ==
    [kind |-> "none", actor |-> NoUser, src |-> NoThread, pc |-> "idle",
     ok |-> FALSE, err |-> NoErr, berr |-> NoErr, errKind |-> "none", summary |-> <<>>,
     assignee |-> NoUser, uid |-> NoUser, member |-> NoUser, forum |-> NoForum, thread |-> NoThread,
     tiers |-> {}, log |-> <<>>, calls |-> 0, replies |-> <<>>, thrown |-> FALSE,
     net |-> "none", ret |-> "none"]

\* ---- small helpers on an event record ----
Logged(r, tag) == [r EXCEPT !.log = Append(@, tag)]
Goto(r, pc) == [r EXCEPT !.pc = pc]
Replied(r, kind, text, ok) ==
    [r EXCEPT !.replies = Append(@, [kind |-> kind, text |-> text, ok |-> ok])]
\* an exception leaves the handler
Threw(r) == [r EXCEPT !.pc = "done", !.thrown = TRUE]
\* A mutant of Caught: the handler has no catch block.
Caught_rethrow(r, kind, err) == [r EXCEPT !.pc = "done", !.thrown = TRUE]

\* an exception reaches the handler's catch block
Caught(r, kind, err) == [r EXCEPT !.pc = "catch", !.errKind = kind, !.err = err]

\* A mutant of Path: the claim handler prepares the forum and the thread
\* before it calls the backend.
Path_reconcileFirst(kind) ==
    IF kind = "claim"
    THEN <<"claimForum", "claimThread", "fetch", "resp", "confirm", "srcDelete", "done">>
    ELSE <<"done">>

\* The order of the awaited steps of each handler, as its source issues them.
Path(kind) ==
    CASE kind = "claim" ->
            <<"fetch", "resp", "confirm", "claimForum", "claimThread", "srcDelete", "done">>
      [] kind = "approve" ->
            <<"pm", "fetch", "resp", "confirm", "lookup", "resolve", "completed",
              "srcDelete", "done">>
      [] kind = "deny" ->
            <<"pm", "fetch", "resp", "lookup", "resolve", "unarchive", "notice",
              "srcDelete", "done">>
      [] kind = "submit" ->
            <<"unreact", "own", "call", "result", "reviewCreate", "pmPing",
              "finalReply", "done">>
      [] kind = "cmdReview" ->
            <<"defer", "call", "result", "reviewCreate", "pmPing", "finalReply", "done">>
      [] kind = "cmdDone" ->
            <<"defer", "hasPm", "call", "result", "lookup", "resolve", "reviewDelete",
              "completed", "finalReply", "done">>
      [] kind = "cmdDeny" ->
            <<"defer", "hasPm", "call", "result", "lookup", "reviewDelete", "resolve",
              "unarchive", "notice", "finalReply", "done">>
      [] kind = "cmdQuit" ->
            <<"defer", "call", "result", "quitNotice", "finalReply", "done">>
      [] OTHER -> <<"done">>

\* The step that follows step pc on the path of kind.
After(kind, pc) ==
    LET p == Path(kind)
        i == CHOOSE i \in 1..Len(p) : p[i] = pc
    IN p[i + 1]

First(kind) == Path(kind)[1]

\* ---- the initial world ----

ReviewChannel == [cat |-> "review", name |-> <<"r">>, type |-> "forum", allow |-> {}]
UnassignedChannel == [cat |-> "unassigned", name |-> <<"c">>, type |-> "forum", allow |-> {}]
WorkingChannel(name, user) ==
    [cat |-> "working", name |-> name, type |-> "forum", allow |-> {user}]
MkWorldThread(parent, name, arch) ==
    [parent |-> parent, name |-> name, archived |-> arch, deleted |-> FALSE]

\* The user the ticket is assigned to in the worlds that start past "To Do".
Assignee == "u3"

\* The worlds the events start in: the ticket unclaimed (its thread in the
\* unassigned forum), in progress (a working thread in the assignee's forum)
\* or in review (also a review thread).  The assignee's forum is absent, or
\* named after the current username, or after an older one; another user's
\* forum holding the thread of ticket K-12 may precede it in the category.
Scenarios ==
    {[status |-> "To Do", forumKind |-> fk, arch |-> FALSE, decoy |-> d] :
        fk \in {"none", "named"}, d \in BOOLEAN}
    \cup {[status |-> st, forumKind |-> fk, arch |-> a, decoy |-> d] :
        st \in {"In Progress", "In Review"}, fk \in {"named", "renamed"},
        a \in BOOLEAN, d \in BOOLEAN}
    \cup {[status |-> st, forumKind |-> "none", arch |-> FALSE, decoy |-> d] :
        st \in {"In Progress", "In Review"}, d \in BOOLEAN}

ScenarioChans(sc) ==
    <<ReviewChannel, UnassignedChannel>>
    \o (IF sc.decoy THEN <<WorkingChannel(ForumNameOf(Username("u1")), "u1")>> ELSE <<>>)
    \o (IF sc.forumKind = "named"
        THEN <<WorkingChannel(ForumNameOf(Username(Assignee)), Assignee)>>
        ELSE IF sc.forumKind = "renamed"
        THEN <<WorkingChannel(ForumNameOf(<<"z">>), Assignee)>>
        ELSE <<>>)

ScenarioThreads(sc) ==
    LET own == IF sc.decoy THEN 4 ELSE 3
    IN (IF sc.decoy THEN <<MkWorldThread(3, ThreadNameOf(KeyK12, <<"F">>), FALSE)>> ELSE <<>>)
       \o (IF sc.status = "To Do"
           THEN <<MkWorldThread(UnassignedForum, ThreadNameOf(KeyK1, <<"T">>), FALSE)>>
           ELSE <<>>)
       \o (IF sc.status # "To Do" /\ sc.forumKind # "none"
           THEN <<MkWorldThread(own, ThreadNameOf(KeyK1, <<"F">>), sc.arch)>>
           ELSE <<>>)
       \o (IF sc.status = "In Review"
           THEN <<MkWorldThread(ReviewForum, ThreadNameOf(KeyK1, <<"F">>), FALSE)>>
           ELSE <<>>)

OInit ==
    /\ ev = [e \in EventIds |-> NoEvent]
    /\ \E sc \in Scenarios :
          /\ chans = ScenarioChans(sc)
          /\ threads = ScenarioThreads(sc)
          /\ jira = [status |-> sc.status,
                     assignee |-> IF sc.status = "To Do" THEN NoUser ELSE Assignee]
    /\ timers = {}

\* ------------------------------------------------------------------------
\* handleReaction: src/handlers/reactionHandler.js, utils/validators.js
\* ------------------------------------------------------------------------

\* EMOJIS.CHECKMARKS and EMOJIS.DENY, by their names.
CHECKMARKS == {"white_check_mark", "ballot_box_with_check", "heavy_check_mark"}
DENY == {"x", "cross_mark", "negative_squared_cross_mark"}

\* The characters [A-Z] and \d of the strings the model builds.
Letters == {"K", "T", "F", "B"}
Digits == {"1", "2"}

\* The length of the run of characters of class cls starting at position s.
RECURSIVE RunLen(_, _, _)
RunLen(str, s, cls) ==
    IF s > Len(str) \/ str[s] \notin cls THEN 0
    ELSE 1 + RunLen(str, s + 1, cls)

\* [A-Z]+-\d+ matched at position s: the position of its last character, 0
\* when it does not match there.
MatchEnd(str, s) ==
    LET n == RunLen(str, s, Letters)
        m == RunLen(str, s + n + 1, Digits)
    IN IF n > 0 /\ s + n <= Len(str) /\ str[s + n] = "-" /\ m > 0
       THEN s + n + m ELSE 0

\* extractTicketKey(text): the leftmost match of /([A-Z]+-\d+)/, null for an
\* empty or absent text.
extractTicketKey(text) ==
    LET starts == {s \in 1..Len(text) : MatchEnd(text, s) # 0}
    IN IF starts = {} THEN NoKey
       ELSE LET s == CHOOSE x \in starts : \A y \in starts : x <= y
            IN SubSeq(text, s, MatchEnd(text, s))

Browse == <<"b", "r", "o", "w", "s", "e", "/">>

\* embed.url?.match(/browse\/([A-Z]+-\d+)/): the key right after the leftmost
\* "browse/" that is followed by one.
urlMatch(url) ==
    LET starts == {s \in 1..Len(url) :
                      /\ s + Len(Browse) - 1 <= Len(url)
                      /\ SubSeq(url, s, s + Len(Browse) - 1) = Browse
                      /\ MatchEnd(url, s + Len(Browse)) # 0}
    IN IF starts = {} THEN NoKey
       ELSE LET s == CHOOSE x \in starts : \A y \in starts : x <= y
            IN SubSeq(url, s + Len(Browse), MatchEnd(url, s + Len(Browse)))

\* The key of one embed: its title's, else its URL's.
embedKey(embed) ==
    IF extractTicketKey(embed.title) # NoKey THEN extractTicketKey(embed.title)
    ELSE urlMatch(embed.url)

\* A mutant of jiraTicketKey: the embeds are read before the thread name.
jiraTicketKey_embedsFirst(name, embeds) ==
    LET i == FindFirst(embeds, LAMBDA em : embedKey(em) # NoKey)
    IN IF i # 0 THEN embedKey(embeds[i]) ELSE extractTicketKey(name)

\* jiraTicketKey: the thread name first; with no key there, the embeds in
\* order, for each its title and then its URL, stopping at the first key.
jiraTicketKey(name, embeds) ==
    IF extractTicketKey(name) # NoKey THEN extractTicketKey(name)
    ELSE LET i == FindFirst(embeds, LAMBDA em : embedKey(em) # NoKey)
         IN IF i = 0 THEN NoKey ELSE embedKey(embeds[i])

\* config.channels
channels ==
    [tasksForReview |-> ReviewForum, codeUnassigned |-> UnassignedForum,
     artUnassigned |-> 7, audioUnassigned |-> 8]

unassignedChannels ==
    {channels.codeUnassigned, channels.artUnassigned, channels.audioUnassigned}

\* A mutant of Route: a deny emoji under an unassigned forum claims too.
Route_denyClaims(parentId, emojiName) ==
    IF emojiName \in CHECKMARKS \cup DENY /\ parentId \in unassignedChannels THEN "claim"
    ELSE IF parentId = channels.tasksForReview
    THEN IF emojiName \in CHECKMARKS THEN "approve"
         ELSE IF emojiName \in DENY THEN "deny" ELSE "none"
    ELSE "none"

\* The handler chosen from the parent channel id and the emoji.
Route(parentId, emojiName) ==
    IF emojiName \in CHECKMARKS /\ parentId \in unassignedChannels THEN "claim"
    ELSE IF parentId = channels.tasksForReview
    THEN IF emojiName \in CHECKMARKS THEN "approve"
         ELSE IF emojiName \in DENY THEN "deny" ELSE "none"
    ELSE "none"

\* A mutant of handleReaction: a reaction whose fetch failed is routed as
\* it is.
handleReaction_partialPasses(r) ==
    IF r.gate \in {"bot", "notThread"} THEN NoRoute
    ELSE IF r.emoji \notin CHECKMARKS /\ r.emoji \notin DENY THEN NoRoute
    ELSE LET key == jiraTicketKey(r.name, r.embeds)
         IN IF key = NoKey THEN NoRoute
            ELSE IF Route(r.parentId, r.emoji) = "none" THEN NoRoute
            ELSE [handler |-> Route(r.parentId, r.emoji), key |-> key]

\* handleReaction(reaction, user, client, config) up to the handler it calls:
\* bots, reactions that cannot be fetched, emojis that are neither checkmark
\* nor deny, channels that are not threads and messages without a ticket key
\* are dropped.
handleReaction(r) ==
    IF r.gate \in {"bot", "partialFail", "notThread"} THEN NoRoute
    ELSE IF r.emoji \notin CHECKMARKS /\ r.emoji \notin DENY THEN NoRoute
    ELSE LET key == jiraTicketKey(r.name, r.embeds)
         IN IF key = NoKey THEN NoRoute
            ELSE IF Route(r.parentId, r.emoji) = "none" THEN NoRoute
            ELSE [handler |-> Route(r.parentId, r.emoji), key |-> key]

\* ---- the reactions handleReaction is run on ----
MaxEmbeds == 2
EmojiNames == {"white_check_mark", "heavy_check_mark", "x", "clipboard", "thumbsup"}
Gates == {"bot", "partialFail", "notThread", "public", "private", "partialOk"}
Parents ==
    {[id |-> channels.tasksForReview, cat |-> "other"],
     [id |-> channels.codeUnassigned, cat |-> "other"],
     [id |-> channels.audioUnassigned, cat |-> "other"],
     [id |-> 3, cat |-> "working"],
     [id |-> 3, cat |-> "missing"],
     [id |-> 0, cat |-> "missing"]}
ThreadNames ==
    {ThreadNameOf(KeyK1, <<"T">>), <<"t", " ">> \o KeyK12, <<"k", "-", "1">>}
EmbedTitles == {<<>>, <<"t">>, <<"B", "-", "2", " ", "t">>}
EmbedUrls == {<<>>, <<"/">> \o KeyK12, <<"/">> \o Browse \o KeyK12}
Embeds == {[title |-> t, url |-> u] : t \in EmbedTitles, u \in EmbedUrls}
EmbedLists == UNION {[1..n -> Embeds] : n \in 0..MaxEmbeds}

HInit ==
    /\ route = Pending
    /\ \E emoji \in EmojiNames, gate \in Gates, parent \in Parents,
          name \in ThreadNames, embeds \in EmbedLists :
          rx = [emoji |-> emoji, gate |-> gate, parentId |-> parent.id,
                parentCat |-> parent.cat, name |-> name, embeds |-> embeds]

\* The messageReactionAdd event is handled.
HandleReactionEvent ==
    /\ route = Pending
    /\ route' = handleReaction(rx)
    /\ UNCHANGED <<rx, wvars, fvars, ovars, lvars, svars>>

\* ---- events arrive ----

\* The threads of channel `parent` that still exist and carry the event key.
LiveThreads(parent) ==
    {t \in 1..Len(threads) :
        threads[t].parent = parent /\ ~threads[t].deleted
        /\ StartsWith(threads[t].name, EventKey \o <<":">>)}

\* handleReaction routes a reaction on thread t: a checkmark under an
\* unassigned forum is a claim, a checkmark or a deny emoji under the review
\* forum is an approve or a deny.  Events are numbered in arrival order.
ReactionArrives(e, kind, actor, t) ==
    /\ ev[e].kind = "none"
    /\ \A d \in EventIds : d < e => ev[d].kind # "none"
    /\ t \in LiveThreads(threads[t].parent)
    /\ jiraTicketKey(threads[t].name, <<>>) = EventKey
    /\ \E emojiName \in CHECKMARKS \cup DENY : Route(threads[t].parent, emojiName) = kind
    /\ ev' = [ev EXCEPT ![e] =
                [NoEvent EXCEPT !.kind = kind, !.actor = actor, !.src = t,
                                !.pc = First(kind)]]
    /\ UNCHANGED <<chans, threads, timers, jira, wvars, fvars, lvars, hvars, svars>>

\* ---- reaction handlers: src/handlers/ticketHandlers.js ----

\* The backend replies the orchestrator is run against.
MainOutcomes ==
    {o \in HttpOutcomes :
        \/ o.kind = "transport"
        \/ o.json = "unparseable" /\ o.ok
        \/ o.json = "object" /\ o.ok /\ o.success = "true" /\ o.error = "absent"
        \/ o.json = "object" /\ o.ok /\ o.success = "false" /\ o.error # "absent"
        \/ o.json = "object" /\ o.ok /\ o.success = "absent" /\ o.error = "absent"
        \/ o.json = "object" /\ ~o.ok /\ o.success = "absent" /\ o.error # "absent"}

\* result.summary as the backend sends it (<<>>: absent).
Summaries == {<<"F">>, <<>>}

\* What the reaction handlers make of one fetch: `await fetch`, `await
\* response.json()`, then `if (!result.success) throw new WebhookError(
\* result.error || 'Unknown error from webhook')`.
RawResult(o) ==
    IF o.kind = "transport"
    THEN [ok |-> FALSE, errKind |-> "other", err |-> ErrText("Network error")]
    ELSE IF o.json = "unparseable"
    THEN [ok |-> FALSE, errKind |-> "other", err |-> ErrText("Invalid JSON")]
    ELSE IF o.json = "null"
    THEN [ok |-> FALSE, errKind |-> "other", err |-> ErrText("TypeError")]
    ELSE IF o.success = "true"
    THEN [ok |-> TRUE, errKind |-> "none", err |-> NoErr]
    ELSE [ok |-> FALSE, errKind |-> "webhook",
          err |-> ErrText(IF o.error # "absent" THEN o.error
                          ELSE "Unknown error from webhook")]

\* The handlers that read result.summary.
ReadsSummary(kind) == kind \in {"claim", "approve", "submit", "cmdReview", "cmdDone"}

\* targetStatus of the request each kind of event sends.
TargetStatus(kind) ==
    CASE kind \in {"claim", "deny", "cmdDeny"} -> "In Progress"
      [] kind \in {"approve", "cmdDone"} -> "Done"
      [] kind \in {"submit", "cmdReview"} -> "In Review"
      [] OTHER -> "To Do"

\* The ticket after the backend carried out the request of an event.
BackendApplied(kind, actor) ==
    [status |-> TargetStatus(kind),
     assignee |-> IF kind = "claim" THEN actor
                  ELSE IF kind = "cmdQuit" THEN NoUser
                  ELSE jira.assignee]

\* A mutant of PmCheck: any member that can be fetched passes.
PmCheck_anyMember(e) ==
    /\ ev[e].pc = "pm"
    /\ \E fetchOk \in BOOLEAN :
          ev' = [ev EXCEPT ![e] =
                    IF ~fetchOk THEN Threw(Logged(@, "pm:fetchFailed"))
                    ELSE Goto(Logged(@, "pm:yes"), After(@.kind, "pm"))]
    /\ UNCHANGED <<chans, threads, timers, jira, wvars, fvars, lvars, hvars, svars>>

\* checkPmRole inside handleApproveTicket / handleDenyTicket: a failed member
\* fetch is rethrown; a member without the role gets the PermissionError reply.
PmCheck(e) ==
    /\ ev[e].pc = "pm"
    /\ \E fetchOk \in BOOLEAN :
          ev' = [ev EXCEPT ![e] =
                    IF ~fetchOk THEN Threw(Logged(@, "pm:fetchFailed"))
                    ELSE IF @.actor \notin PMs THEN Goto(Logged(@, "pm:no"), "denied")
                    ELSE Goto(Logged(@, "pm:yes"), After(@.kind, "pm"))]
    /\ UNCHANGED <<chans, threads, timers, jira, wvars, fvars, lvars, hvars, svars>>

\* thread.send of the permission message, inside the catch block.
ReplyDenied(e) ==
    /\ ev[e].pc = "denied"
    /\ ev[e].kind \in {"approve", "deny"}
    /\ \E ok \in BOOLEAN :
          ev' = [ev EXCEPT ![e] =
                    LET r == Replied(@, "denied", ErrText("Only PMs can do this"), ok)
                    IN IF ok THEN Goto(r, "done") ELSE Threw(r)]
    /\ UNCHANGED <<chans, threads, timers, jira, wvars, fvars, lvars, hvars, svars>>

\* The replies a reaction handler's fetch can get: those of MainOutcomes and
\* a non-2xx response whose body says success:true.
RawOutcomes ==
    MainOutcomes
    \cup {[kind |-> "response", ok |-> FALSE, json |-> "object", success |-> "true",
           error |-> "absent"]}

\* How the fetch of a reply settles: rejected, or resolved with a 2xx or a
\* non-2xx response.
NetOf(o) ==
    IF o.kind = "transport" THEN "transport" ELSE IF o.ok THEN "2xx" ELSE "non2xx"

\* `await fetch(...)`: the request leaves for the backend and the fetch
\* settles; the body is still to be read.
RawFetch(e) ==
    /\ ev[e].pc = "fetch"
    /\ \E net \in {"transport", "2xx", "non2xx"} :
          ev' = [ev EXCEPT ![e] =
                    Goto(Logged([@ EXCEPT !.calls = @ + 1, !.net = net], "backend:start"),
                         After(@.kind, "fetch"))]
    /\ UNCHANGED <<chans, threads, timers, jira, wvars, fvars, lvars, hvars, svars>>

\* `await response.json()` and `if (!result.success) throw`: response.ok is
\* not read; success continues, anything else is thrown into the handler's
\* catch block.
RawResp(e) ==
    /\ ev[e].pc = "resp"
    /\ \E o \in {x \in RawOutcomes : NetOf(x) = ev[e].net}, sm \in Summaries :
          LET res == RawResult(o)
          IN IF res.ok
             THEN /\ ev' = [ev EXCEPT ![e] =
                              Goto(Logged([@ EXCEPT !.ok = TRUE, !.net = "none", !.summary = IF ReadsSummary(ev[e].kind) THEN sm ELSE <<>>,
                                                    !.assignee = BackendApplied(ev[e].kind, ev[e].actor).assignee],
                                          "backend:done"),
                                   After(@.kind, "resp"))]
                  /\ jira' = BackendApplied(ev[e].kind, ev[e].actor)
             ELSE /\ ev' = [ev EXCEPT ![e] =
                              Caught(Logged([@ EXCEPT !.berr = res.err, !.net = "none"],
                                            "backend:failed"),
                                     res.errKind, res.err)]
                  /\ UNCHANGED jira
    /\ UNCHANGED <<chans, threads, timers, wvars, fvars, lvars, hvars, svars>>

\* thread.send of the confirmation in the reacted thread (claim, approve).
ConfirmSend(e) ==
    /\ ev[e].pc = "confirm"
    /\ \E ok \in BOOLEAN :
          ev' = [ev EXCEPT ![e] =
                    LET r == Logged(Replied(@, "confirm", NoErr, ok), "send:confirm")
                    IN IF ok THEN Goto(r, After(@.kind, "confirm"))
                       ELSE Caught(r, "other", ErrText("Missing Access"))]
    /\ UNCHANGED <<chans, threads, timers, jira, wvars, fvars, lvars, hvars, svars>>

\* The catch block of a reaction handler: thread.send of the error text.  An
\* error of this send leaves the handler.
CatchSend(e) ==
    /\ ev[e].pc = "catch"
    /\ ev[e].kind \in {"claim", "approve", "deny", "submit"}
    /\ \E ok \in BOOLEAN :
          ev' = [ev EXCEPT ![e] =
                    LET r == Replied(@, IF @.errKind = "webhook" THEN "webhookError"
                                        ELSE "error", @.err, ok)
                    IN IF ok THEN Goto(r, "done") ELSE Threw(r)]
    /\ UNCHANGED <<chans, threads, timers, jira, wvars, fvars, lvars, hvars, svars>>

\* ---- forumService.js ----

\* What handleClaimTicket passes as the `client` argument of
\* findOrCreateUserTaskForum: nothing (it calls it with three arguments).
ClaimPassesClient == FALSE

\* findOrCreateUserTaskForum(guild, user, categoryId, client): the forum named
\* tasks-<sanitized username> in the category if there is one; otherwise
\* guild.channels.create is called with overwrites that read client.user.id.
\* With no client that read throws inside the try block and null is
\* returned; so does a rejected create.  Result: the forum found (its id), or
\* NoForum and whether a forum gets created.
findOrCreateUserTaskForum(category, user, hasClient, createOk) ==
    LET i == FindFirst(category, LAMBDA ch :
                 ch.name = ForumNameOf(Username(user)) /\ ch.type = "forum")
    IN IF i # 0 THEN [forum |-> category[i].id, create |-> FALSE]
       ELSE [forum |-> NoForum, create |-> hasClient /\ createOk]

\* The claim handler's `await forumService.findOrCreateUserTaskForum(guild,
\* user, config.categories.workingTickets)`; with no forum the thread
\* creation is skipped.
ClaimForum(e) ==
    /\ ev[e].pc = "claimForum"
    /\ \E createOk \in BOOLEAN :
          LET res == findOrCreateUserTaskForum(CategoryView("working", {}),
                                               ev[e].actor, ClaimPassesClient, createOk)
              forum == IF res.create THEN Len(chans) + 1 ELSE res.forum
          IN /\ chans' = IF res.create
                         THEN Append(chans, WorkingChannel(
                                  ForumNameOf(Username(ev[e].actor)), ev[e].actor))
                         ELSE chans
             /\ ev' = [ev EXCEPT ![e] =
                         Goto(Logged([@ EXCEPT !.forum = forum],
                                     IF res.forum = NoForum /\ ClaimPassesClient /\ ~createOk
                                     THEN "fail:forum:create" ELSE "forum:findOrCreate"),
                              IF forum = NoForum
                              THEN After(@.kind, After(@.kind, "claimForum"))
                              ELSE After(@.kind, "claimForum"))]
    /\ UNCHANGED <<threads, timers, jira, wvars, fvars, lvars, hvars, svars>>

\* createTaskThread(forum, ticketData): forum.threads.create with the name
\* `${ticketKey}: ${cleanTitle}`, then the reaction and the description
\* message.  Any error is logged and null returned; the handler ignores the
\* returned value.  title is result.summary || thread.name.
ClaimThread(e) ==
    /\ ev[e].pc = "claimThread"
    /\ \E outcome \in {"createFails", "postFails", "ok"} :
          LET title == IF ev[e].summary # <<>> THEN ev[e].summary
                       ELSE threads[ev[e].src].name
              name == ThreadNameOf(EventKey, CleanTitle(title))
          IN /\ threads' = IF outcome = "createFails" THEN threads
                           ELSE Append(threads, MkWorldThread(ev[e].forum, name, FALSE))
             /\ ev' = [ev EXCEPT ![e] =
                         Goto(Logged([@ EXCEPT !.thread =
                                         IF outcome = "ok" THEN Len(threads) + 1
                                         ELSE NoThread],
                                     IF outcome = "ok" THEN "thread:create"
                                     ELSE "fail:thread:create"),
                              After(@.kind, "claimThread"))]
    /\ UNCHANGED <<chans, timers, jira, wvars, fvars, lvars, hvars, svars>>

\* deleteThreadWithDelay(thread, reason, delayMs, fallbackToArchive): a timer.
DeleteTimer(thread, delay, fallback, e) ==
    [thread |-> thread, op |-> "delete", delay |-> delay, fallback |-> fallback, by |-> e,
     fired |-> FALSE, deleteFailed |-> FALSE, archiveCalls |-> 0, rejected |-> FALSE]

\* ---- identity lookup and the resolver inside the handlers ----

\* What lookupDiscordUser can come to: the result carries no assignee email;
\* the lookup-user call fails or throws; it returns no discordId; it returns
\* a discordId whose guild member cannot be fetched; or one whose member is
\* fetched.
LookupOutcomes == {"noEmail", "failed", "noId", "idOnly", "member"}

\* lookupDiscordUser(guild, result.assignee?.emailAddress): never throws.
lookupDiscordUser(assignee, outcome) ==
    [discordUserId |-> IF outcome \in {"idOnly", "member"} THEN assignee ELSE NoUser,
     discordUser |-> IF outcome = "member" THEN assignee ELSE NoUser]

Lookup(e) ==
    /\ ev[e].pc = "lookup"
    /\ \E outcome \in LookupOutcomes :
          /\ (ev[e].assignee = NoUser => outcome \in {"noEmail", "failed", "noId"})
          /\ LET l == lookupDiscordUser(ev[e].assignee, outcome)
             IN ev' = [ev EXCEPT ![e] =
                         Goto(Logged([@ EXCEPT !.uid = l.discordUserId,
                                               !.member = l.discordUser], "lookup"),
                              After(@.kind, "lookup"))]
    /\ UNCHANGED <<chans, threads, timers, jira, wvars, fvars, lvars, hvars, svars>>

\* findUserForum on the working category, then findTicketThread in the forum
\* found when the resolver did not return the thread itself.
ResolveThread(category, discordUserId, discordUser, ticketKey) ==
    LET r == findUserForum(category, discordUserId, discordUser, ticketKey)
        tt == IF r.ticketThread # NoThread THEN r.ticketThread
              ELSE IF r.userForum # NoForum
              THEN findTicketThread(category[r.userForum], ticketKey)
              ELSE NoThread
    IN [forum |-> IF r.userForum # NoForum THEN category[r.userForum].id ELSE NoForum,
        thread |-> tt, tiers |-> r.tiers]

\* The working thread of the ticket is looked for.  Approve and /task done
\* (deleteWorkingThread) schedule its deletion; deny and /task deny
\* (notifyInWorkingThread) go on to unarchive it and post the notice.
Resolve(e) ==
    /\ ev[e].pc = "resolve"
    /\ \E bad \in SUBSET WorkingForums :
          LET r == ResolveThread(CategoryView("working", bad), ev[e].uid, ev[e].member,
                                 EventKey)
              k == ev[e].kind
              found == r.thread # NoThread
          IN /\ timers' = IF k \in {"approve", "cmdDone"} /\ found
                          THEN timers \cup {DeleteTimer(r.thread, THREAD_DELETE_SHORT, FALSE, e)}
                          ELSE timers
             /\ ev' = [ev EXCEPT ![e] =
                         Goto(Logged([@ EXCEPT !.forum = r.forum, !.thread = r.thread,
                                               !.tiers = r.tiers],
                                     IF k \in {"approve", "cmdDone"} /\ found
                                     THEN "schedule:delete:working" ELSE "resolve"),
                              IF k \in {"approve", "cmdDone"} THEN After(k, "resolve")
                              ELSE IF ~found THEN After(k, "notice")
                              ELSE IF threads[r.thread].archived THEN "unarchive"
                              ELSE "notice")]
    /\ UNCHANGED <<chans, threads, jira, wvars, fvars, lvars, hvars, svars>>

\* `await ticketThread.setArchived(false)` in handleDenyTicket: an error is
\* thrown to the handler's catch block.  notifyInWorkingThread calls
\* threadService.unarchiveThread, which logs the error and returns false.
Unarchive(e) ==
    /\ ev[e].pc = "unarchive"
    /\ \E ok \in BOOLEAN :
          /\ threads' = IF ok THEN [threads EXCEPT ![ev[e].thread].archived = FALSE]
                        ELSE threads
          /\ ev' = [ev EXCEPT ![e] =
                      IF ok \/ @.kind = "cmdDeny"
                      THEN Goto(Logged(@, "unarchive"), "notice")
                      ELSE Caught(Logged(@, "fail:unarchive"), "other",
                                  ErrText("Missing Access"))]
    /\ UNCHANGED <<chans, timers, jira, wvars, fvars, lvars, hvars, svars>>

\* `await ticketThread.send(...)` of the denial notice: not guarded in
\* handleDenyTicket nor in notifyInWorkingThread.
Notice(e) ==
    /\ ev[e].pc = "notice"
    /\ \E ok \in BOOLEAN :
          ev' = [ev EXCEPT ![e] =
                    IF ok THEN Goto(Logged(@, "notice"), After(@.kind, "notice"))
                    ELSE Caught(Logged(@, "fail:notice"), "other",
                                ErrText("Missing Access"))]
    /\ UNCHANGED <<chans, threads, timers, jira, wvars, fvars, lvars, hvars, svars>>

\* ticketInfo.assignee?.displayName || ... || 'Unassigned'
DisplayName(u) ==
    CASE u = "u1" -> <<"A", "b">>
      [] u = "u3" -> <<"C", " ", "1">>
      [] OTHER -> <<"U">>

CompletedChannel(name) == [cat |-> "completed", name |-> name, type |-> "forum", allow |-> {}]

\* createCompletedTaskThread(guild, ticketKey, ticketInfo, approver): the
\* forum tasks-<sanitized assignee name> of the completed category is found
\* or created, and the thread created in it.  Every error is logged and null
\* returned.
Completed(e) ==
    /\ ev[e].pc = "completed"
    /\ \E outcome \in {"forumFails", "threadFails", "ok"} :
          LET name == ForumNameOf(DisplayName(ev[e].assignee))
              i == FindFirst(CategoryView("completed", {}),
                             LAMBDA ch : ch.name = name /\ ch.type = "forum")
              create == i = 0 /\ outcome # "forumFails"
              forum == IF i # 0 THEN CategoryView("completed", {})[i].id
                       ELSE IF create THEN Len(chans) + 1 ELSE NoForum
              title == IF ev[e].summary # <<>> THEN ev[e].summary ELSE <<"T">>
          IN /\ (i # 0 => outcome # "forumFails")
             /\ chans' = IF create THEN Append(chans, CompletedChannel(name)) ELSE chans
             /\ threads' = IF forum # NoForum /\ outcome = "ok"
                           THEN Append(threads,
                                    MkWorldThread(forum, <<"D", " ">> \o ThreadNameOf(EventKey, title),
                                                  FALSE))
                           ELSE threads
             /\ ev' = [ev EXCEPT ![e] =
                         Goto(Logged(@, "completed:create"), After(@.kind, "completed"))]
    /\ UNCHANGED <<timers, jira, wvars, fvars, lvars, hvars, svars>>

\* ---- /task commands and submit-for-review: commands/utility/task.js,
\* ---- taskManagementService.js, handleSubmitForReview ----

CommandKinds == {"cmdReview", "cmdDone", "cmdDeny", "cmdQuit"}

\* handleCommand runs the execute of /task <subcommand> <ticket> for a valid
\* ticket key.
CommandArrives(e, kind, actor) ==
    /\ ev[e].kind = "none"
    /\ \A d \in EventIds : d < e => ev[d].kind # "none"
    /\ kind \in CommandKinds
    /\ ev' = [ev EXCEPT ![e] =
                [NoEvent EXCEPT !.kind = kind, !.actor = actor, !.pc = First(kind)]]
    /\ UNCHANGED <<chans, threads, timers, jira, wvars, fvars, lvars, hvars, svars>>

\* handleSubmitForReview is called on thread t of a working forum.
SubmitArrives(e, actor, t) ==
    /\ ev[e].kind = "none"
    /\ \A d \in EventIds : d < e => ev[d].kind # "none"
    /\ \E f \in WorkingForums : t \in LiveThreads(f)
    /\ ev' = [ev EXCEPT ![e] =
                [NoEvent EXCEPT !.kind = "submit", !.actor = actor, !.src = t,
                                !.pc = First("submit")]]
    /\ UNCHANGED <<chans, threads, timers, jira, wvars, fvars, lvars, hvars, svars>>

\* A mutant of Unreact: a failed removal ends the handler.
Unreact_abortOnFailure(e) ==
    /\ ev[e].pc = "unreact"
    /\ \E ok \in BOOLEAN :
          ev' = [ev EXCEPT ![e] =
                    IF ok THEN Goto(Logged(@, "unreact"), After(@.kind, "unreact"))
                    ELSE Goto(Logged(@, "unreact:failed"), "done")]
    /\ UNCHANGED <<chans, threads, timers, jira, wvars, fvars, lvars, hvars, svars>>

\* reaction.users.remove(user.id): an error is logged only.
Unreact(e) ==
    /\ ev[e].pc = "unreact"
    /\ \E ok \in BOOLEAN :
          ev' = [ev EXCEPT ![e] =
                    Goto(Logged(@, IF ok THEN "unreact" ELSE "unreact:failed"),
                         After(@.kind, "unreact"))]
    /\ UNCHANGED <<chans, threads, timers, jira, wvars, fvars, lvars, hvars, svars>>

\* A mutant of Own: every actor passes the ownership test.
Own_anyone(e) ==
    /\ ev[e].pc = "own"
    /\ ev' = [ev EXCEPT ![e] = Goto(Logged(@, "own:yes"), After(@.kind, "own"))]
    /\ UNCHANGED <<chans, threads, timers, jira, wvars, fvars, lvars, hvars, svars>>

\* The ownership test: the parent forum must be named after the actor;
\* anyone else is ignored without a reply.
Own(e) ==
    /\ ev[e].pc = "own"
    /\ ev' = [ev EXCEPT ![e] =
                IF chans[threads[@.src].parent].name = ForumNameOf(Username(@.actor))
                THEN Goto(Logged(@, "own:yes"), After(@.kind, "own"))
                ELSE Goto(Logged(@, "own:no"), "done")]
    /\ UNCHANGED <<chans, threads, timers, jira, wvars, fvars, lvars, hvars, svars>>

\* `await interaction.deferReply(...)`, before execute's try block: an error
\* goes to handleCommand's catch block.
CmdDefer(e) ==
    /\ ev[e].pc = "defer"
    /\ \E ok \in BOOLEAN :
          ev' = [ev EXCEPT ![e] =
                    IF ok THEN Goto(Logged(@, "defer"), After(@.kind, "defer"))
                    ELSE Goto(Logged(@, "defer:failed"), "outer")]
    /\ UNCHANGED <<chans, threads, timers, jira, wvars, fvars, lvars, hvars, svars>>

\* A mutant of CmdHasPm: a failed member fetch lets the command through.
CmdHasPm_failOpen(e) ==
    /\ ev[e].pc = "hasPm"
    /\ \E fetchOk \in BOOLEAN :
          ev' = [ev EXCEPT ![e] =
                    IF ~fetchOk
                    THEN Goto(Logged(@, "pm:fetchFailed"), After(@.kind, "hasPm"))
                    ELSE IF @.actor \in PMs
                    THEN Goto(Logged(@, "pm:yes"), After(@.kind, "hasPm"))
                    ELSE Goto(Logged(@, "pm:no"), "denied")]
    /\ UNCHANGED <<chans, threads, timers, jira, wvars, fvars, lvars, hvars, svars>>

\* hasPmRole(guild, userId): a failed member fetch counts as "no".  Without
\* the role the command replies and returns.
CmdHasPm(e) ==
    /\ ev[e].pc = "hasPm"
    /\ \E fetchOk \in BOOLEAN :
          ev' = [ev EXCEPT ![e] =
                    IF fetchOk /\ @.actor \in PMs
                    THEN Goto(Logged(@, "pm:yes"), After(@.kind, "hasPm"))
                    ELSE Goto(Logged(@, IF fetchOk THEN "pm:no" ELSE "pm:fetchFailed"),
                              "denied")]
    /\ UNCHANGED <<chans, threads, timers, jira, wvars, fvars, lvars, hvars, svars>>

\* interaction.editReply of the "Only PMs can ..." text, inside execute's try.
CmdDenied(e) ==
    /\ ev[e].pc = "denied"
    /\ ev[e].kind \in CommandKinds
    /\ \E ok \in BOOLEAN :
          ev' = [ev EXCEPT ![e] =
                    LET r == Replied(@, "denied", ErrText("Only PMs can do this"), ok)
                    IN IF ok THEN Goto(r, "done")
                       ELSE Caught(r, "other", ErrText("Unknown interaction"))]
    /\ UNCHANGED <<chans, threads, timers, jira, wvars, fvars, lvars, hvars, svars>>

\* withRetry run to its end on the replies outs[1], outs[2], ...: the value
\* executeRequest resolves to, or threw when the loop lets an error out.
RECURSIVE withRetry(_, _, _)
withRetry(req, outs, attempt) ==
    LET r == Operation(req, outs[attempt])
        l == withRetryLoop(attempt + 1, r.msg)
    IN IF ~r.threw THEN [threw |-> FALSE, result |-> r.value]
       ELSE IF l.pc = "attempt" THEN withRetry(req, outs, attempt + 1)
       ELSE [threw |-> l.pc = "threw", result |-> l.result]

\* n8nService.moveTicket / quitTicket: a POST with a JSON body.
MoveRequest == [method |-> "POST", hasBody |-> TRUE, hasQuery |-> FALSE]

\* The service issues its n8nService call.
N8nCall(e) ==
    /\ ev[e].pc = "call"
    /\ ev' = [ev EXCEPT ![e] =
                Goto(Logged([@ EXCEPT !.calls = @ + 1], "backend:start"),
                     After(@.kind, "call"))]
    /\ UNCHANGED <<chans, threads, timers, jira, wvars, fvars, lvars, hvars, svars>>

\* The call resolves; `if (!result.success) return {success: false, error:
\* result.error || 'Unknown error'}`.
N8nResult(e) ==
    /\ ev[e].pc = "result"
    /\ \E outs \in [1..maxAttempts -> MainOutcomes], sm \in Summaries :
          LET w == withRetry(MoveRequest, outs, 1)
              applied == BackendApplied(ev[e].kind, ev[e].actor)
          IN IF w.threw
             THEN /\ ev' = [ev EXCEPT ![e] =
                              Caught(Logged(@, "backend:failed"), "other", ErrText("rejected"))]
                  /\ UNCHANGED jira
             ELSE IF w.result.success = "true"
             THEN /\ ev' = [ev EXCEPT ![e] =
                              Goto(Logged([@ EXCEPT !.ok = TRUE, !.summary = IF ReadsSummary(ev[e].kind) THEN sm ELSE <<>>,
                                                    !.assignee = applied.assignee],
                                          "backend:done"),
                                   After(@.kind, "result"))]
                  /\ jira' = applied
             ELSE /\ ev' = [ev EXCEPT ![e] =
                              Goto(Logged([@ EXCEPT !.err =
                                              IF w.result.error # NoErr THEN w.result.error
                                              ELSE ErrText("Unknown error"),
                                                    !.berr = w.result.error],
                                          "backend:failed"),
                                   "failReply")]
                  /\ UNCHANGED jira
    /\ UNCHANGED <<chans, threads, timers, wvars, fvars, lvars, hvars, svars>>

\* createReviewThread(forum, ...): forum.threads.create, then the starter
\* message gets its two reactions; any error gives null, and then no PM ping
\* is sent.
ReviewCreate(e) ==
    /\ ev[e].pc = "reviewCreate"
    /\ \E outcome \in {"createFails", "reactFails", "ok"} :
          LET title == IF ev[e].summary # <<>> THEN ev[e].summary ELSE <<"R">>
          IN /\ threads' = IF outcome = "createFails" THEN threads
                           ELSE Append(threads,
                                    MkWorldThread(ReviewForum, ThreadNameOf(EventKey, title),
                                                  FALSE))
             /\ ev' = [ev EXCEPT ![e] =
                         Goto(Logged([@ EXCEPT !.thread = IF outcome = "ok"
                                                          THEN Len(threads) + 1
                                                          ELSE NoThread],
                                     "review:create"),
                              IF outcome = "ok" THEN After(@.kind, "reviewCreate")
                              ELSE After(@.kind, "pmPing"))]
    /\ UNCHANGED <<chans, timers, jira, wvars, fvars, lvars, hvars, svars>>

\* `await thread.send(...)` of the PM ping in submitForReview: not guarded.
PmPing(e) ==
    /\ ev[e].pc = "pmPing"
    /\ \E ok \in BOOLEAN :
          ev' = [ev EXCEPT ![e] =
                    IF ok THEN Goto(Logged(@, "pmPing"), After(@.kind, "pmPing"))
                    ELSE Caught(Logged(@, "fail:pmPing"), "other", ErrText("Missing Access"))]
    /\ UNCHANGED <<chans, threads, timers, jira, wvars, fvars, lvars, hvars, svars>>

\* deleteReviewThread(guild, ticketKey, reason): the review thread is looked
\* for with findTicketThread and, when found, scheduled for deletion.
ReviewDelete(e) ==
    /\ ev[e].pc = "reviewDelete"
    /\ \E fetchOk \in BOOLEAN :
          LET t == findTicketThread(ChannelView(ReviewForum,
                                                IF fetchOk THEN {} ELSE {ReviewForum}),
                                    EventKey)
          IN /\ timers' = IF t # NoThread
                          THEN timers \cup {DeleteTimer(t, THREAD_DELETE_MEDIUM, FALSE, e)}
                          ELSE timers
             /\ ev' = [ev EXCEPT ![e] =
                         Goto(Logged(@, IF t # NoThread THEN "schedule:delete:review"
                                        ELSE IF fetchOk THEN "review:none"
                                        ELSE "review:fetchFailed"),
                              After(@.kind, "reviewDelete"))]
    /\ UNCHANGED <<chans, threads, jira, wvars, fvars, lvars, hvars, svars>>

\* A mutant of ArchiveTimer: the timer deletes the thread.
ArchiveTimer_delete(thread, delay, e) ==
    [thread |-> thread, op |-> "delete", delay |-> delay, fallback |-> FALSE, by |-> e,
     fired |-> FALSE, deleteFailed |-> FALSE, archiveCalls |-> 0, rejected |-> FALSE]

\* archiveThreadWithDelay(thread, delayMs)
ArchiveTimer(thread, delay, e) ==
    [thread |-> thread, op |-> "archive", delay |-> delay, fallback |-> FALSE, by |-> e,
     fired |-> FALSE, deleteFailed |-> FALSE, archiveCalls |-> 0, rejected |-> FALSE]

\* archiveWorkingThread(guild, username, ticketKey, userId): the forum named
\* after the quitting user, the ticket's thread in it, an unguarded send of
\* the notice, then the archive timer.
QuitNotice(e) ==
    /\ ev[e].pc = "quitNotice"
    /\ \E fetchOk \in BOOLEAN, sendOk \in BOOLEAN :
          LET cat == CategoryView("working", IF fetchOk THEN {} ELSE WorkingForums)
              i == FindFirst(cat, LAMBDA ch :
                       ch.name = ForumNameOf(Username(ev[e].actor)) /\ ch.type = "forum")
              t == IF i = 0 THEN NoThread ELSE findTicketThread(cat[i], EventKey)
          IN /\ (t = NoThread => sendOk)
             /\ timers' = IF t # NoThread /\ sendOk
                          THEN timers \cup {ArchiveTimer(t, THREAD_DELETE_SHORT, e)}
                          ELSE timers
             /\ ev' = [ev EXCEPT ![e] =
                         IF t = NoThread
                         THEN Goto(Logged(@, "quit:notFound"), After(@.kind, "quitNotice"))
                         ELSE IF sendOk
                         THEN Goto(Logged([@ EXCEPT !.thread = t], "schedule:archive:working"),
                                   After(@.kind, "quitNotice"))
                         ELSE Caught(Logged(@, "fail:quitNotice"), "other",
                                     ErrText("Missing Access"))]
    /\ UNCHANGED <<chans, threads, jira, wvars, fvars, lvars, hvars, svars>>

\* The reply after a successful service call: interaction.editReply of the
\* success text, or thread.send("Submitted for review! ...").
FinalReply(e) ==
    /\ ev[e].pc = "finalReply"
    /\ \E ok \in BOOLEAN :
          ev' = [ev EXCEPT ![e] =
                    LET r == Replied(@, "success", NoErr, ok)
                    IN IF ok THEN Goto(r, "done")
                       ELSE Caught(r, "other", ErrText("Unknown interaction"))]
    /\ UNCHANGED <<chans, threads, timers, jira, wvars, fvars, lvars, hvars, svars>>

\* The reply after {success: false}: "Could not ...: ${result.error}".
FailReply(e) ==
    /\ ev[e].pc = "failReply"
    /\ \E ok \in BOOLEAN :
          ev' = [ev EXCEPT ![e] =
                    LET r == Replied(@, "failure", @.err, ok)
                    IN IF ok THEN Goto(r, "done")
                       ELSE Caught(r, "other", ErrText("Unknown interaction"))]
    /\ UNCHANGED <<chans, threads, timers, jira, wvars, fvars, lvars, hvars, svars>>

\* The catch block of execute: editReply("Error: ${error.message}"); its own
\* error leaves execute.
CmdCatch(e) ==
    /\ ev[e].pc = "catch"
    /\ ev[e].kind \in CommandKinds
    /\ \E ok \in BOOLEAN :
          ev' = [ev EXCEPT ![e] =
                    LET r == Replied(@, "error", @.err, ok)
                    IN IF ok THEN Goto(r, "done") ELSE Goto(r, "outer")]
    /\ UNCHANGED <<chans, threads, timers, jira, wvars, fvars, lvars, hvars, svars>>

\* The catch block of handleCommand: followUp (or reply) of the generic
\* text; its own error leaves handleCommand.
CmdOuter(e) ==
    /\ ev[e].pc = "outer"
    /\ \E ok \in BOOLEAN :
          ev' = [ev EXCEPT ![e] =
                    LET r == Replied(@, "generic", NoErr, ok)
                    IN IF ok THEN Goto(r, "done") ELSE Threw(r)]
    /\ UNCHANGED <<chans, threads, timers, jira, wvars, fvars, lvars, hvars, svars>>

\* ---- threadService.js ----

\* The handler's last step: the reacted thread is scheduled for deletion.
SrcDelete(e) ==
    /\ ev[e].pc = "srcDelete"
    /\ timers' = timers \cup
          {DeleteTimer(ev[e].src,
                       IF ev[e].kind = "deny" THEN THREAD_DELETE_SHORT ELSE THREAD_DELETE_LONG,
                       ev[e].kind = "claim", e)}
    /\ ev' = [ev EXCEPT ![e] =
                Goto(Logged(@, "schedule:delete:src"), After(@.kind, "srcDelete"))]
    /\ UNCHANGED <<chans, threads, jira, wvars, fvars, lvars, hvars, svars>>

\* A mutant of timerCallback: the thread is archived after any failed delete.
timerCallback_alwaysArchive(tm, delOk, arcOk) ==
    [tm EXCEPT !.fired = TRUE,
               !.deleteFailed = (tm.op = "delete" /\ ~delOk),
               !.archiveCalls = IF tm.op = "archive" \/ ~delOk THEN 1 ELSE 0,
               !.rejected = FALSE]

\* A mutant of timerCallback: the failure of the fallback archive is thrown
\* out of the callback.
timerCallback_rethrow(tm, delOk, arcOk) ==
    [tm EXCEPT !.fired = TRUE,
               !.deleteFailed = (tm.op = "delete" /\ ~delOk),
               !.archiveCalls = IF tm.op = "archive" \/ (~delOk /\ tm.fallback)
                                THEN 1 ELSE 0,
               !.rejected = (tm.op = "delete" /\ ~delOk /\ tm.fallback /\ ~arcOk)]

\* The callback handed to setTimeout: thread.delete inside a try; in its
\* catch, when fallbackToArchive is set, thread.setArchived(true) inside a
\* second try whose catch only logs.  An archive timer calls setArchived in a
\* try of its own.  The promise of the callback is never rejected.
timerCallback(tm, delOk, arcOk) ==
    [tm EXCEPT !.fired = TRUE,
               !.deleteFailed = (tm.op = "delete" /\ ~delOk),
               !.archiveCalls = IF tm.op = "archive" \/ (~delOk /\ tm.fallback)
                                THEN 1 ELSE 0,
               !.rejected = FALSE]

\* A timer fires: the callback runs against the thread as it then is; the
\* calls on a thread that is already deleted fail.
TimerFire(tm) ==
    /\ tm \in timers
    /\ ~tm.fired
    /\ \E delOk \in BOOLEAN, arcOk \in BOOLEAN :
          /\ (threads[tm.thread].deleted => ~delOk /\ ~arcOk)
          /\ LET done == timerCallback(tm, delOk, arcOk)
             IN /\ timers' = (timers \ {tm}) \cup {done}
                /\ threads' =
                      IF tm.op = "delete" /\ ~done.deleteFailed
                      THEN [threads EXCEPT ![tm.thread].deleted = TRUE]
                      ELSE IF done.archiveCalls > 0 /\ arcOk
                      THEN [threads EXCEPT ![tm.thread].archived = TRUE]
                      ELSE threads
    /\ UNCHANGED <<ev, chans, jira, wvars, fvars, lvars, hvars, svars>>

vars == <<wvars, fvars, ovars, lvars, hvars, svars>>

\* One step of a reaction handler working on event e.
HandleReaction(e) ==
    \/ PmCheck(e) \/ ReplyDenied(e) \/ RawFetch(e) \/ RawResp(e) \/ ConfirmSend(e)
    \/ CatchSend(e) \/ Lookup(e) \/ Resolve(e) \/ Unarchive(e) \/ Notice(e)
    \/ Completed(e) \/ SrcDelete(e)

\* One step of the handling of event e.
Handle(e) ==
    \/ HandleReaction(e) \/ ClaimForum(e) \/ ClaimThread(e)
    \/ Unreact(e) \/ Own(e) \/ CmdDefer(e) \/ CmdHasPm(e) \/ CmdDenied(e)
    \/ N8nCall(e) \/ N8nResult(e) \/ ReviewCreate(e) \/ PmPing(e) \/ ReviewDelete(e)
    \/ QuitNotice(e) \/ FinalReply(e) \/ FailReply(e) \/ CmdCatch(e) \/ CmdOuter(e)

\* One triggering event of any kind is handled in each of the starting
\* worlds, the timers it sets firing at any later moment.  No handler takes
\* a processing lock: utils/reactionLock.js is required by none of them.
Next ==
    \/ \E kind \in {"claim", "approve", "deny"}, actor \in Actors, t \in 1..Len(threads) :
          ReactionArrives(1, kind, actor, t)
    \/ \E actor \in Actors, t \in 1..Len(threads) : SubmitArrives(1, actor, t)
    \/ \E kind \in CommandKinds, actor \in Actors : CommandArrives(1, kind, actor)
    \/ \E e \in EventIds : Handle(e)
    \/ \E tm \in timers : TimerFire(tm)

Init ==
    /\ rq = NoRequest /\ rPc = "idle" /\ rAttempt = 0 /\ rDelay = 0
    /\ rLastError = Null /\ rTrace = <<>> /\ rResult = NoResult
    /\ fCategory = <<>> /\ fUserId = NoUser /\ fUser = NoUser /\ fKey = KeyK1
    /\ fPc = "idle" /\ fResult = NoLookup
    /\ locks = {} /\ now = 0 /\ lRet = NoCall /\ held = {}
    /\ rx = NoReaction /\ route = NoRoute
    /\ uname = <<>> /\ sanitized = <<>>
    /\ OInit

Spec == Init /\ [][Next]_vars

\* Reactions on a review thread handled concurrently: up to MaxEvents approve
\* or deny reactions arrive at any time and their handlers interleave at
\* every await.
OInitReview ==
    /\ ev = [e \in EventIds |-> NoEvent]
    /\ \E sc \in {x \in Scenarios : x.status = "In Review" /\ x.forumKind = "named"
                                    /\ ~x.decoy} :
          /\ chans = ScenarioChans(sc)
          /\ threads = ScenarioThreads(sc)
          /\ jira = [status |-> sc.status, assignee |-> Assignee]
    /\ timers = {}

NextConcurrent ==
    \/ \E e \in EventIds, kind \in {"approve", "deny"}, actor \in Actors,
          t \in 1..Len(threads) : ReactionArrives(e, kind, actor, t)
    \/ \E e \in EventIds : HandleReaction(e)
    \/ \E tm \in timers : TimerFire(tm)

InitConcurrent ==
    /\ rq = NoRequest /\ rPc = "idle" /\ rAttempt = 0 /\ rDelay = 0
    /\ rLastError = Null /\ rTrace = <<>> /\ rResult = NoResult
    /\ fCategory = <<>> /\ fUserId = NoUser /\ fUser = NoUser /\ fKey = KeyK1
    /\ fPc = "idle" /\ fResult = NoLookup
    /\ locks = {} /\ now = 0 /\ lRet = NoCall /\ held = {}
    /\ rx = NoReaction /\ route = NoRoute
    /\ uname = <<>> /\ sanitized = <<>>
    /\ OInitReview

SpecConcurrent == InitConcurrent /\ [][NextConcurrent]_vars

\* The webhook client on its own.
InitWebhook ==
    /\ fCategory = <<>> /\ fUserId = NoUser /\ fUser = NoUser /\ fKey = KeyK1
    /\ fPc = "idle" /\ fResult = NoLookup
    /\ ev = [e \in EventIds |-> NoEvent] /\ chans = <<>> /\ threads = <<>>
    /\ timers = {} /\ jira = [status |-> "To Do", assignee |-> NoUser]
    /\ locks = {} /\ now = 0 /\ lRet = NoCall /\ held = {}
    /\ rx = NoReaction /\ route = NoRoute
    /\ uname = <<>> /\ sanitized = <<>>
    /\ WInit

SpecWebhook == InitWebhook /\ [][NextWebhook]_vars

\* The client with the scheduling the code can count on: the timer of
\* sleep(delay) fires.  Nothing in executeRequest bounds the wait for fetch
\* (no signal, no timeout in fetchOptions), so the settling of an attempt is
\* left to the backend.
SpecWebhookFair == SpecWebhook /\ WF_vars(withRetrySleep)

\* The lookup of deleteWorkingThread and notifyInWorkingThread is made on the
\* inputs: findUserForum, then findTicketThread in the forum it returned when
\* it returned no thread.
ResolveCombined ==
    /\ fPc = "input"
    /\ fResult' = ResolveThread(fCategory, fUserId, fUser, fKey)
    /\ fPc' = "combined"
    /\ UNCHANGED <<fCategory, fUserId, fUser, fKey, wvars, ovars, lvars, hvars, svars>>

NextResolver ==
    \/ FindUserForum
    \/ \E i \in 1..MaxForums : FindTicketThread(i)
    \/ ResolveCombined

\* The resolver on its own.
InitResolver ==
    /\ rq = NoRequest /\ rPc = "idle" /\ rAttempt = 0 /\ rDelay = 0
    /\ rLastError = Null /\ rTrace = <<>> /\ rResult = NoResult
    /\ ev = [e \in EventIds |-> NoEvent] /\ chans = <<>> /\ threads = <<>>
    /\ timers = {} /\ jira = [status |-> "To Do", assignee |-> NoUser]
    /\ locks = {} /\ now = 0 /\ lRet = NoCall /\ held = {}
    /\ rx = NoReaction /\ route = NoRoute
    /\ uname = <<>> /\ sanitized = <<>>
    /\ FInit

SpecResolver == InitResolver /\ [][NextResolver]_vars

\* ------------------------------------------------------------------------
\* reactionLock: the in-memory processing lock
\* ------------------------------------------------------------------------

MaxClock == 3
LockActions == {"claim", "approve"}

\* TIMEOUTS.REACTION_LOCK: the TIMEOUTS object has no such property, so the
\* value read is undefined.
REACTION_LOCK == [defined |-> FALSE, ms |-> 0]

\* x > y in JavaScript with x a number: false when y is undefined.
JsGreater(x, y) == y.defined /\ x > y.ms

\* A mutant of compositeKey: the action is left out of the key.
compositeKey_ticketOnly(ticketKey, action) == ticketKey \o <<":">>

\* `${ticketKey}:${action}`
compositeKey(ticketKey, action) == ticketKey \o <<":">> \o <<action>>

\* cleanupStaleLocks(): the entries that stay in the map at time t.
cleanupStaleLocks(map, t) == {l \in map : ~JsGreater(t - l.ts, REACTION_LOCK)}

Has(map, key) == \E l \in map : l.key = key

\* The age of the entry of a key at time t, -1 when there is none.
AgeOf(map, key, t) ==
    IF Has(map, key) THEN t - (CHOOSE l \in map : l.key = key).ts ELSE -1

LInit ==
    /\ locks = {} /\ now = 0 /\ lRet = NoCall /\ held = {}

acquireLock(ticketKey, action) ==
    LET key == compositeKey(ticketKey, action)
        cleaned == cleanupStaleLocks(locks, now)
    IN /\ locks' = IF Has(cleaned, key) THEN cleaned
                   ELSE cleaned \cup {[key |-> key, ts |-> now]}
       /\ lRet' = [op |-> "acquire", ticketKey |-> ticketKey, action |-> action,
                   ret |-> ~Has(cleaned, key), age |-> AgeOf(locks, key, now)]
       /\ held' = IF Has(cleaned, key) THEN held ELSE held \cup {<<ticketKey, action>>}
       /\ UNCHANGED <<now, wvars, fvars, ovars, hvars, svars>>

releaseLock(ticketKey, action) ==
    LET key == compositeKey(ticketKey, action)
    IN /\ locks' = {l \in locks : l.key # key}
       /\ lRet' = [op |-> "release", ticketKey |-> ticketKey, action |-> action,
                   ret |-> FALSE, age |-> AgeOf(locks, key, now)]
       /\ held' = held \ {<<ticketKey, action>>}
       /\ UNCHANGED <<now, wvars, fvars, ovars, hvars, svars>>

isLocked(ticketKey, action) ==
    LET key == compositeKey(ticketKey, action)
        cleaned == cleanupStaleLocks(locks, now)
    IN /\ locks' = cleaned
       /\ lRet' = [op |-> "isLocked", ticketKey |-> ticketKey, action |-> action,
                   ret |-> Has(cleaned, key), age |-> AgeOf(locks, key, now)]
       /\ UNCHANGED <<now, held, wvars, fvars, ovars, hvars, svars>>

\* Time passes between two calls.
Tick ==
    /\ now < MaxClock
    /\ now' = now + 1
    /\ UNCHANGED <<locks, lRet, held, wvars, fvars, ovars, hvars, svars>>

NextLock ==
    \/ \E k \in TicketKeys, a \in LockActions :
          acquireLock(k, a) \/ releaseLock(k, a) \/ isLocked(k, a)
    \/ Tick

InitLock ==
    /\ rq = NoRequest /\ rPc = "idle" /\ rAttempt = 0 /\ rDelay = 0
    /\ rLastError = Null /\ rTrace = <<>> /\ rResult = NoResult
    /\ fCategory = <<>> /\ fUserId = NoUser /\ fUser = NoUser /\ fKey = KeyK1
    /\ fPc = "idle" /\ fResult = NoLookup
    /\ ev = [e \in EventIds |-> NoEvent] /\ chans = <<>> /\ threads = <<>>
    /\ timers = {} /\ jira = [status |-> "To Do", assignee |-> NoUser]
    /\ rx = NoReaction /\ route = NoRoute
    /\ uname = <<>> /\ sanitized = <<>>
    /\ LInit

SpecLock == InitLock /\ [][NextLock]_vars

\* handleReaction on its own.
InitRouting ==
    /\ rq = NoRequest /\ rPc = "idle" /\ rAttempt = 0 /\ rDelay = 0
    /\ rLastError = Null /\ rTrace = <<>> /\ rResult = NoResult
    /\ fCategory = <<>> /\ fUserId = NoUser /\ fUser = NoUser /\ fKey = KeyK1
    /\ fPc = "idle" /\ fResult = NoLookup
    /\ ev = [e \in EventIds |-> NoEvent] /\ chans = <<>> /\ threads = <<>>
    /\ timers = {} /\ jira = [status |-> "To Do", assignee |-> NoUser]
    /\ locks = {} /\ now = 0 /\ lRet = NoCall /\ held = {}
    /\ uname = <<>> /\ sanitized = <<>>
    /\ HInit

SpecRouting == InitRouting /\ [][HandleReactionEvent]_vars

\* ------------------------------------------------------------------------
\* forumService.findOrCreateUserTaskForum called concurrently
\* ------------------------------------------------------------------------

\* A call starts: the cache lookup and, with no forum found, the building of
\* the arguments of guild.channels.create run without a pause.  A forum found
\* is returned at once; with no client the read of client.user.id throws
\* inside the try block and null is returned; otherwise the call waits for
\* guild.channels.create.
ForumCallStarts(e, user, hasClient) ==
    /\ ev[e].kind = "none"
    /\ \A d \in EventIds : d < e => ev[d].kind # "none"
    /\ LET res == findOrCreateUserTaskForum(CategoryView("working", {}), user,
                                             hasClient, TRUE)
       IN ev' = [ev EXCEPT ![e] =
                   [NoEvent EXCEPT !.kind = "provision", !.actor = user,
                                   !.forum = res.forum,
                                   !.pc = IF res.create THEN "creating" ELSE "done"]]
    /\ UNCHANGED <<chans, threads, timers, jira, wvars, fvars, lvars, hvars, svars>>

\* guild.channels.create settles: the forum made is returned, or the error
\* is logged and null returned.
ForumCreateSettles(e) ==
    /\ ev[e].pc = "creating"
    /\ \E createOk \in BOOLEAN :
          /\ chans' = IF createOk
                       THEN Append(chans, WorkingChannel(
                                ForumNameOf(Username(ev[e].actor)), ev[e].actor))
                       ELSE chans
          /\ ev' = [ev EXCEPT ![e] =
                      [@ EXCEPT !.forum = IF createOk THEN Len(chans) + 1 ELSE NoForum,
                                !.pc = "done",
                                !.log = Append(@, IF createOk THEN "forum:create"
                                                  ELSE "fail:forum:create")]]
    /\ UNCHANGED <<threads, timers, jira, wvars, fvars, lvars, hvars, svars>>

\* The working category before the calls: empty, or holding one user's forum.
PInit ==
    /\ ev = [e \in EventIds |-> NoEvent]
    /\ threads = <<>> /\ timers = {}
    /\ jira = [status |-> "To Do", assignee |-> NoUser]
    /\ \E own \in UserIds \cup {NoUser} :
          chans = <<ReviewChannel, UnassignedChannel>>
                  \o (IF own = NoUser THEN <<>>
                      ELSE <<WorkingChannel(ForumNameOf(Username(own)), own)>>)

NextForum ==
    \/ \E e \in EventIds, user \in UserIds, hasClient \in BOOLEAN :
          ForumCallStarts(e, user, hasClient)
    \/ \E e \in EventIds : ForumCreateSettles(e)

InitForum ==
    /\ rq = NoRequest /\ rPc = "idle" /\ rAttempt = 0 /\ rDelay = 0
    /\ rLastError = Null /\ rTrace = <<>> /\ rResult = NoResult
    /\ fCategory = <<>> /\ fUserId = NoUser /\ fUser = NoUser /\ fKey = KeyK1
    /\ fPc = "idle" /\ fResult = NoLookup
    /\ locks = {} /\ now = 0 /\ lRet = NoCall /\ held = {}
    /\ rx = NoReaction /\ route = NoRoute
    /\ uname = <<>> /\ sanitized = <<>>
    /\ PInit

SpecForum == InitForum /\ [][NextForum]_vars

\* ------------------------------------------------------------------------
\* threadService.archiveThread, archiveThreadWithDelay, unarchiveThread
\* ------------------------------------------------------------------------

ArchiveFns == {"archiveThread", "archiveThreadWithDelay", "unarchiveThread"}

\* A mutant of archiveThread: the error of setArchived is not caught.
archiveThread_rethrow(thread, callOk) ==
    IF thread = NoThread THEN [ret |-> "false", thrown |-> FALSE]
    ELSE IF callOk THEN [ret |-> "true", thrown |-> FALSE]
    ELSE [ret |-> "none", thrown |-> TRUE]

\* archiveThread(thread): false without a thread; true when
\* thread.setArchived(true) resolves; its error is caught, logged, and false
\* returned.
archiveThread(thread, callOk) ==
    IF thread = NoThread THEN [ret |-> "false", thrown |-> FALSE]
    ELSE IF callOk THEN [ret |-> "true", thrown |-> FALSE]
    ELSE [ret |-> "false", thrown |-> FALSE]

\* unarchiveThread(thread): the same around thread.setArchived(false).
unarchiveThread(thread, callOk) ==
    IF thread = NoThread THEN [ret |-> "false", thrown |-> FALSE]
    ELSE IF callOk THEN [ret |-> "true", thrown |-> FALSE]
    ELSE [ret |-> "false", thrown |-> FALSE]

\* archiveThreadWithDelay(thread, delayMs): a bare `return` without a thread,
\* otherwise setTimeout and the end of the function body; no value is
\* returned on either path.
archiveThreadWithDelay(thread) ==
    [ret |-> "undefined", thrown |-> FALSE, schedule |-> thread # NoThread]

\* One of the three functions is called with thread t (NoThread: null).  The
\* part before the first await runs: the missing-thread return, the
\* setTimeout of archiveThreadWithDelay, or the start of setArchived.
ArchiveCall(e, fn, t) ==
    /\ ev[e].kind = "none"
    /\ \A d \in EventIds : d < e => ev[d].kind # "none"
    /\ t = NoThread \/ t \in 1..Len(threads)
    /\ LET r == [NoEvent EXCEPT !.kind = fn, !.thread = t]
       IN IF fn = "archiveThreadWithDelay"
          THEN LET out == archiveThreadWithDelay(t)
               IN /\ ev' = [ev EXCEPT ![e] = [r EXCEPT !.pc = "done", !.ret = out.ret,
                                                       !.thrown = out.thrown]]
                  /\ timers' = IF out.schedule
                               THEN timers \cup {ArchiveTimer(t, THREAD_DELETE_SHORT, e)}
                               ELSE timers
          ELSE /\ timers' = timers
               /\ ev' = [ev EXCEPT ![e] =
                           IF t = NoThread
                           THEN LET out == IF fn = "archiveThread"
                                           THEN archiveThread(t, FALSE)
                                           ELSE unarchiveThread(t, FALSE)
                                IN [r EXCEPT !.pc = "done", !.ret = out.ret,
                                             !.thrown = out.thrown]
                           ELSE [r EXCEPT !.pc = "setArchived"]]
    /\ UNCHANGED <<chans, threads, jira, wvars, fvars, lvars, hvars, svars>>

\* thread.setArchived settles for a call of archiveThread or unarchiveThread.
SetArchivedSettles(e) ==
    /\ ev[e].pc = "setArchived"
    /\ \E callOk \in BOOLEAN :
          LET out == IF ev[e].kind = "archiveThread"
                     THEN archiveThread(ev[e].thread, callOk)
                     ELSE unarchiveThread(ev[e].thread, callOk)
          IN /\ ev' = [ev EXCEPT ![e] = [@ EXCEPT !.pc = "done", !.ok = callOk,
                                                  !.ret = out.ret,
                                                  !.thrown = out.thrown]]
             /\ threads' = IF callOk
                           THEN [threads EXCEPT ![ev[e].thread].archived =
                                                   (ev[e].kind = "archiveThread")]
                           ELSE threads
    /\ UNCHANGED <<chans, timers, jira, wvars, fvars, lvars, hvars, svars>>

\* Two threads of a working forum, each archived or not.
AInit ==
    /\ ev = [e \in EventIds |-> NoEvent]
    /\ chans = <<>> /\ timers = {}
    /\ jira = [status |-> "In Progress", assignee |-> Assignee]
    /\ \E a1 \in BOOLEAN, a2 \in BOOLEAN :
          threads = <<MkWorldThread(3, ThreadNameOf(KeyK1, <<"F">>), a1),
                      MkWorldThread(3, ThreadNameOf(KeyK12, <<"F">>), a2)>>

NextArchive ==
    \/ \E e \in EventIds, fn \in ArchiveFns, t \in 0..2 : ArchiveCall(e, fn, t)
    \/ \E e \in EventIds : SetArchivedSettles(e)
    \/ \E tm \in timers : TimerFire(tm)

InitArchive ==
    /\ rq = NoRequest /\ rPc = "idle" /\ rAttempt = 0 /\ rDelay = 0
    /\ rLastError = Null /\ rTrace = <<>> /\ rResult = NoResult
    /\ fCategory = <<>> /\ fUserId = NoUser /\ fUser = NoUser /\ fKey = KeyK1
    /\ fPc = "idle" /\ fResult = NoLookup
    /\ locks = {} /\ now = 0 /\ lRet = NoCall /\ held = {}
    /\ rx = NoReaction /\ route = NoRoute
    /\ uname = <<>> /\ sanitized = <<>>
    /\ AInit

SpecArchive == InitArchive /\ [][NextArchive]_vars

\* ------------------------------------------------------------------------
\* The forum-name sanitization applied to usernames, once and again
\* ------------------------------------------------------------------------

MaxName == 3
NameChars == {"A", "b", "1", ".", "_", "!"}

\* The username of the test "should sanitize username for forum name".
TestUser == <<"T", "e", "s", "t", ".", "U", "s", "e", "r", "_", "1", "2", "3", "!">>

RECURSIVE StringsUpTo(_)
StringsUpTo(n) ==
    IF n = 0 THEN {<<>>}
    ELSE LET shorter == StringsUpTo(n - 1)
         IN shorter \cup {Append(str, c) : str \in {x \in shorter : Len(x) = n - 1},
                                           c \in NameChars}

Usernames == StringsUpTo(MaxName) \cup {TestUser}

SInit ==
    /\ uname \in Usernames
    /\ sanitized = <<>>

\* The sanitization is applied to the username, then to its own result.
SanitizeName ==
    /\ Len(sanitized) < 2
    /\ sanitized' = Append(sanitized,
                           Sanitize(IF sanitized = <<>> THEN uname
                                    ELSE sanitized[Len(sanitized)]))
    /\ UNCHANGED <<uname, wvars, fvars, ovars, lvars, hvars>>

InitSanitize ==
    /\ rq = NoRequest /\ rPc = "idle" /\ rAttempt = 0 /\ rDelay = 0
    /\ rLastError = Null /\ rTrace = <<>> /\ rResult = NoResult
    /\ fCategory = <<>> /\ fUserId = NoUser /\ fUser = NoUser /\ fKey = KeyK1
    /\ fPc = "idle" /\ fResult = NoLookup
    /\ ev = [e \in EventIds |-> NoEvent] /\ chans = <<>> /\ threads = <<>>
    /\ timers = {} /\ jira = [status |-> "To Do", assignee |-> NoUser]
    /\ locks = {} /\ now = 0 /\ lRet = NoCall /\ held = {}
    /\ rx = NoReaction /\ route = NoRoute
    /\ SInit

SpecSanitize == InitSanitize /\ [][SanitizeName]_vars

\* ---- helpers over the client's trace ----
Fetches == SelectSeq(rTrace, LAMBDA e : e.ev = "fetch")
Sleeps == SelectSeq(rTrace, LAMBDA e : e.ev = "sleep")
AllFetchesFailed == \A i \in 1..Len(rTrace) : rTrace[i].ev = "fetch" => rTrace[i].failed

\* C1: when every attempt fails, the client makes exactly 3 attempts, the
\* first immediately, the second after a 1000 ms wait, the third after a
\* further 2000 ms wait, with no wait after the third, and resolves to
\* {success:false, error} whose text contains "failed after 3 attempts".
C1_RetryBound ==
    (rPc = "returned" /\ AllFetchesFailed) =>
        /\ Len(rTrace) = 5
        /\ rTrace[1].ev = "fetch"
        /\ rTrace[2].ev = "sleep" /\ rTrace[2].ms = 1000
        /\ rTrace[3].ev = "fetch"
        /\ rTrace[4].ev = "sleep" /\ rTrace[4].ms = 2000
        /\ rTrace[5].ev = "fetch"
        /\ Len(Fetches) = 3
        /\ rResult.success = "false"
        /\ rResult.error.prefix = "Request failed after"
        /\ rResult.error.attempts = 3

C1_Witness ==
    /\ rPc = "returned"
    /\ AllFetchesFailed
    /\ Len(Fetches) = 3
    /\ \E i, j, k \in 1..Len(rTrace) :
          /\ rTrace[i].ev = "fetch" /\ rTrace[j].ev = "fetch" /\ rTrace[k].ev = "fetch"
          /\ i < j /\ j < k

\* C2: executeRequest always resolves to a result envelope and never throws
\* or rejects to its caller, whatever the backend produces on each attempt.
C2_NeverThrows ==
    /\ rPc \in {"idle", "attempt", "sleep", "returned"}
    /\ rPc = "returned" =>
          /\ rResult # NoResult
          /\ rResult.success \in {"true", "false", "null"}
          /\ (AllFetchesFailed => rResult.success = "false" /\ rResult.error # NoErr)

C2_Witness ==
    /\ rPc = "returned"
    /\ Len(Fetches) = 3
    /\ rTrace[1].failed /\ rTrace[3].failed /\ rTrace[5].failed
    /\ rLastError = "Failed to parse response"
    /\ rResult.success = "false"
\* ---- helpers over an event's record ----

InLog(e, tag) == \E i \in 1..Len(ev[e].log) : ev[e].log[i] = tag
HasReply(e, kinds) == \E i \in 1..Len(ev[e].replies) : ev[e].replies[i].kind \in kinds
LastReplyFailed(e) ==
    /\ ev[e].replies # <<>>
    /\ ~ev[e].replies[Len(ev[e].replies)].ok

\* ---- orchestrator claims ----

GatedKinds == {"approve", "deny", "cmdDone", "cmdDeny"}

\* The role check of event e came out negative: the member was fetched and
\* lacks the role, or (commands only) hasPmRole answered false on an error.
RoleCheckNegative(e) ==
    InLog(e, "pm:no") \/ (InLog(e, "pm:fetchFailed") /\ ev[e].kind \in CommandKinds)

\* C3: on approve, deny, /task done and /task deny, an actor who does not hold
\* the PM role causes no backend call at all, and once the role check has come
\* out negative the first reply issued is the permission-denied one; a
\* backend call is issued only after the role check has passed.
C3_PmGate ==
    \A e \in EventIds :
        ev[e].kind \in GatedKinds =>
            /\ (ev[e].actor \notin PMs =>
                    /\ ev[e].calls = 0
                    /\ ~InLog(e, "backend:start")
                    /\ ~InLog(e, "lookup"))
            /\ (RoleCheckNegative(e) /\ ev[e].pc # "denied" =>
                    /\ ev[e].replies # <<>>
                    /\ ev[e].replies[1].kind = "denied")
            /\ (ev[e].calls > 0 =>
                    \E i \in 1..Len(ev[e].log) :
                        /\ ev[e].log[i] = "pm:yes"
                        /\ \A j \in 1..i : ev[e].log[j] # "backend:start")

C3_Witness ==
    \E e \in EventIds :
        /\ ev[e].kind \in {"approve", "cmdDeny"}
        /\ ev[e].actor \notin PMs
        /\ ev[e].pc = "done"
        /\ HasReply(e, {"denied"})
        /\ ev[e].calls = 0

\* C4 (as stated): of two events of the same action handled at the same time,
\* at most one has called the backend.
C4_OneCallAtATime ==
    \A e1 \in EventIds, e2 \in EventIds :
        (/\ e1 # e2
         /\ ev[e1].kind = ev[e2].kind
         /\ ev[e1].kind # "none"
         /\ ev[e1].pc # "done"
         /\ ev[e2].pc # "done") => ~(ev[e1].calls > 0 /\ ev[e2].calls > 0)

\* The tags of the Discord-side reconciliation steps, and for each kind of
\* event the order in which its source issues them.
IssueOrder(kind) ==
    CASE kind = "claim" ->
            <<{"forum:findOrCreate", "fail:forum:create"},
              {"thread:create", "fail:thread:create"}, {"schedule:delete:src"}>>
      [] kind = "approve" ->
            <<{"schedule:delete:working"}, {"completed:create"}, {"schedule:delete:src"}>>
      [] kind = "deny" ->
            <<{"unarchive", "fail:unarchive"}, {"notice", "fail:notice"},
              {"schedule:delete:src"}>>
      [] kind \in {"submit", "cmdReview"} ->
            <<{"review:create"}, {"pmPing", "fail:pmPing"}>>
      [] kind = "cmdDone" ->
            <<{"schedule:delete:working"}, {"schedule:delete:review"}, {"completed:create"}>>
      [] kind = "cmdDeny" ->
            <<{"schedule:delete:review"}, {"unarchive"}, {"notice", "fail:notice"}>>
      [] kind = "cmdQuit" ->
            <<{"schedule:archive:working", "fail:quitNotice"}>>
      [] OTHER -> <<>>

ReconTags == UNION {UNION {IssueOrder(k)[i] : i \in 1..Len(IssueOrder(k))} :
                       k \in {"claim", "approve", "deny", "submit", "cmdDone", "cmdDeny",
                              "cmdQuit"}}

Rank(kind, tag) == CHOOSE i \in 1..Len(IssueOrder(kind)) : tag \in IssueOrder(kind)[i]

\* C5: within one event every reconciliation step starts after the backend
\* call has completed, and the reconciliation steps start in the order the
\* handler's source issues them.
C5_BackendFirst ==
    \A e \in EventIds : \A j \in 1..Len(ev[e].log) :
        ev[e].log[j] \in ReconTags =>
            /\ \E i \in 1..(j - 1) : ev[e].log[i] = "backend:done"
            /\ \A i \in 1..(j - 1) :
                  ev[e].log[i] \in ReconTags =>
                      Rank(ev[e].kind, ev[e].log[i]) < Rank(ev[e].kind, ev[e].log[j])

C5_Witness ==
    \E e \in EventIds :
        /\ ev[e].kind = "cmdDeny"
        /\ ev[e].pc = "done"
        /\ InLog(e, "schedule:delete:review")
        /\ InLog(e, "notice")

\* A reconciliation step of event e failed with an error.
ReconFailed(e) ==
    \E t \in {"fail:unarchive", "fail:notice", "fail:pmPing", "fail:quitNotice"} : InLog(e, t)

\* C6 (as stated): after a successful backend transition the failure of a
\* reconciliation step is never reported to the user as an error.
C6_ReconcileSwallowed ==
    \A e \in EventIds :
        (ev[e].ok /\ ReconFailed(e)) => ~HasReply(e, {"error", "webhookError", "generic"})

\* C7 (as stated): no exception leaves a handler.
C7_NeverPropagates == \A e \in EventIds : ~ev[e].thrown

\* C7 (amended): an exception leaves a handler only when the PM member fetch
\* of an approve or deny reaction failed or when a reply to the user itself
\* failed; a backend failure alone never does: the first reply issued after
\* it carries the backend's error text.
C7_OnlyReplyFailuresPropagate ==
    \A e \in EventIds :
        /\ ev[e].thrown =>
              \/ InLog(e, "pm:fetchFailed") /\ ev[e].kind \in {"approve", "deny"}
              \/ LastReplyFailed(e)
        /\ (InLog(e, "backend:failed") /\ ev[e].pc \notin {"catch", "failReply"}) =>
              /\ ev[e].replies # <<>>
              /\ ev[e].replies[1].kind \in {"webhookError", "error", "failure"}
              /\ ev[e].replies[1].text =
                    IF ev[e].berr # NoErr THEN ev[e].berr
                    ELSE IF ev[e].kind \in CommandKinds \cup {"submit"}
                    THEN ErrText("Unknown error")
                    ELSE ErrText("Unknown error from webhook")

C7_Witness ==
    \E e \in EventIds :
        /\ ev[e].thrown
        /\ InLog(e, "backend:failed")
        /\ LastReplyFailed(e)

\* C8 (as stated): a claim whose assign-ticket call succeeded, and none of
\* whose Discord calls was rejected, ends with the actor's working forum found
\* or created and the thread "K: S" created in it.
C8_ClaimMakesThread ==
    \A e \in EventIds :
        (/\ ev[e].kind = "claim"
         /\ ev[e].ok
         /\ ev[e].pc = "done"
         /\ ev[e].errKind = "none"
         /\ ~InLog(e, "fail:forum:create")
         /\ ~InLog(e, "fail:thread:create")) =>
            /\ ev[e].forum # NoForum
            /\ chans[ev[e].forum].name = ForumNameOf(Username(ev[e].actor))
            /\ ev[e].thread # NoThread
            /\ threads[ev[e].thread].parent = ev[e].forum

\* C9: on a deny whose identity lookup gave no discordId the resolver goes to
\* Tier 3 only; when no working thread is found no step fails, the deny
\* reaction ends without an exception or an error reply and with the review
\* thread scheduled for deletion, and /task deny goes on to its reply having
\* scheduled the review thread's deletion whenever that thread could be found.
C9_DenyUnresolved ==
    \A e \in EventIds :
        (/\ ev[e].kind \in {"deny", "cmdDeny"}
         /\ InLog(e, "resolve")
         /\ ev[e].uid = NoUser) =>
            /\ ev[e].tiers = {3}
            /\ ev[e].thread = NoThread =>
                  /\ ~ReconFailed(e)
                  /\ ev[e].kind = "deny" =>
                        /\ ev[e].pc \in {"srcDelete", "done"}
                        /\ ev[e].replies = <<>>
                        /\ ~ev[e].thrown
                        /\ ev[e].pc = "done" => InLog(e, "schedule:delete:src")
                  /\ ev[e].kind = "cmdDeny" =>
                        /\ ev[e].pc \in {"finalReply", "catch", "outer", "done"}
                        /\ \/ InLog(e, "schedule:delete:review")
                           \/ InLog(e, "review:none")
                           \/ InLog(e, "review:fetchFailed")
                        /\ ev[e].thrown => LastReplyFailed(e)

C9_Witness ==
    \E e \in EventIds :
        /\ ev[e].kind = "deny"
        /\ ev[e].pc = "done"
        /\ InLog(e, "resolve")
        /\ ev[e].uid = NoUser
        /\ ev[e].thread = NoThread
        /\ InLog(e, "schedule:delete:src")
        /\ ~ev[e].thrown

\* The timers set by deleteThreadWithDelay.
DeleteTimers == {tm \in timers : tm.op = "delete"}

\* C14: when the timer of deleteThreadWithDelay has fired, setArchived(true)
\* was called exactly once if delete failed and fallbackToArchive was set,
\* and not at all if delete succeeded or fallbackToArchive was not set.
C14_FallbackArchive ==
    \A tm \in DeleteTimers : tm.fired =>
        tm.archiveCalls = IF tm.deleteFailed /\ tm.fallback THEN 1 ELSE 0

C14_Witness ==
    /\ \E tm \in DeleteTimers :
          tm.fired /\ tm.deleteFailed /\ tm.fallback /\ tm.archiveCalls = 1
    /\ \E e \in EventIds : ev[e].pc = "done"

\* C15: deleteThreadWithDelay surfaces no error: the handler that called it
\* goes on to its next step while the timer is still pending, and the
\* callback's promise is never rejected, whatever delete and the fallback
\* archive came to.
C15_TimerSilent ==
    \A tm \in DeleteTimers :
        /\ ~tm.rejected
        /\ ev[tm.by].kind # "none"
        /\ \E tag \in {"schedule:delete:src", "schedule:delete:working",
                        "schedule:delete:review"} : InLog(tm.by, tag)

C15_Witness ==
    \E tm \in DeleteTimers :
        /\ tm.fired /\ tm.deleteFailed /\ tm.fallback
        /\ ~threads[tm.thread].deleted
        /\ ~threads[tm.thread].archived
        /\ ~tm.rejected

\* C21: on the submit-for-review path the removal of the actor's reaction is
\* the first thing done, before the ownership check and before any backend
\* call, and when the removal fails the handler still goes on to the
\* ownership check.
C21_UnreactFirst ==
    \A e \in EventIds :
        (ev[e].kind = "submit" /\ ev[e].pc # "unreact") =>
            /\ ev[e].log # <<>>
            /\ ev[e].log[1] \in {"unreact", "unreact:failed"}
            /\ \A i \in 2..Len(ev[e].log) :
                  ev[e].log[i] \notin {"unreact", "unreact:failed"}
            /\ (ev[e].calls > 0 \/ ev[e].pc = "done") =>
                  (InLog(e, "own:yes") \/ InLog(e, "own:no"))

C21_Witness ==
    \E e \in EventIds :
        /\ ev[e].kind = "submit"
        /\ ev[e].log # <<>>
        /\ ev[e].log[1] = "unreact:failed"
        /\ InLog(e, "own:yes")
        /\ ev[e].calls > 0
        /\ ev[e].pc = "done"

\* The forum of the thread event e was triggered on is named after its actor.
OwnsForum(e) ==
    chans[threads[ev[e].src].parent].name = ForumNameOf(Username(ev[e].actor))

\* C22: a submit-for-review reaction reaches the backend only when the
\* parent forum of the thread is named tasks-<sanitized actor username>; for
\* any other actor there is no backend call, no review thread and no reply.
C22_OwnerOnly ==
    \A e \in EventIds :
        (ev[e].kind = "submit" /\ ~OwnsForum(e)) =>
            /\ ev[e].calls = 0
            /\ ~InLog(e, "backend:start")
            /\ ~InLog(e, "review:create")
            /\ ev[e].replies = <<>>
            /\ ev[e].pc \in {"unreact", "own", "done"}

C22_Witness ==
    \E e \in EventIds :
        /\ ev[e].kind = "submit"
        /\ ~OwnsForum(e)
        /\ InLog(e, "own:no")
        /\ ev[e].pc = "done"

Edges ==
    {<<"To Do", "In Progress">>, <<"In Progress", "In Review">>,
     <<"In Review", "Done">>, <<"In Review", "In Progress">>,
     <<"In Progress", "To Do">>}

\* C25: while a status change requested by the bot is on its way to the
\* backend, the pair (current status, requested status) is an edge of the
\* ticket state machine; so Done and the denial's In Progress are requested
\* only for a ticket that is In Review.
C25_EdgesOnly ==
    \A e \in EventIds :
        ev[e].pc \in {"resp", "result"} =>
            <<jira.status, TargetStatus(ev[e].kind)>> \in Edges

\* C26: the backend mutation of a reaction handler (claim, approve, deny)
\* goes through the webhook client like that of a slash command: when its
\* fetch fails at the transport, the failure is shown to the user only after
\* maxAttempts fetches have been made.
C26_ReactionPathRetries ==
    \A e \in EventIds :
        (/\ ev[e].kind \in {"claim", "approve", "deny"}
         /\ InLog(e, "backend:failed")
         /\ ev[e].berr = ErrText("Network error")) =>
            ev[e].calls = maxAttempts

\* C27: a backend call that failed (a transport error or a non-2xx status)
\* is never taken for a success by the handler, so the event goes to its
\* failure reply and none of its thread and forum operations is started.
C27_FailedCallNoEffect ==
    [][\A e \in EventIds :
         (ev[e].pc = "resp" /\ ev[e].net \in {"transport", "non2xx"}) =>
             /\ ~ev'[e].ok
             /\ \A i \in 1..Len(ev'[e].log) : ev'[e].log[i] \notin ReconTags]_vars

\* C28: the envelope returned for a 2xx response with a JSON object body has
\* success false when the body carries success:false and success true for
\* every other body, whether its success field is absent or has any other
\* value.
C28_EnvelopeSuccess ==
    rPc = "returned" =>
        rResult.success = IF rTrace[Len(rTrace)].body = "false" THEN "false" ELSE "true"

\* ---- resolver claims ----

\* The channels of the category that Tier 1 / Tier 2 would accept.
NameMatches == {i \in 1..Len(fCategory) :
    fUser # NoUser /\ fCategory[i].type = "forum"
    /\ fCategory[i].name = ForumNameOf(Username(fUser))}
PermMatches == {i \in 1..Len(fCategory) :
    fUserId # NoUser /\ fCategory[i].type = "forum" /\ fUserId \in fCategory[i].allow}

\* C10: with a name-matched forum for the known user and a different forum
\* whose overwrites allow that user's id ViewChannel, findUserForum returns
\* the name-matched forum; Tier 2 is consulted only when Tier 1 finds
\* nothing, and Tier 3 only when both find nothing.
C10_TierOrder ==
    fPc = "done" =>
        /\ (NameMatches # {} => fResult.userForum \in NameMatches /\ fResult.tiers = {1})
        /\ (2 \in fResult.tiers => NameMatches = {})
        /\ (3 \in fResult.tiers => NameMatches = {} /\ PermMatches = {})

C10_Witness ==
    /\ fPc = "done"
    /\ \E i \in NameMatches, j \in PermMatches :
          /\ j < i
          /\ j \notin NameMatches
          /\ fResult.userForum = i

\* The ids of the threads of a list whose name starts with the key.
KeyThreads(list) == {list[k].id : k \in {n \in 1..Len(list) : StartsWith(list[n].name, fKey)}}

\* The forums of the category whose thread lists can be fetched and hold, in
\* the active or the archived list, a thread whose name starts with the key.
Holders == {i \in 1..Len(fCategory) :
    /\ fCategory[i].type = "forum"
    /\ fCategory[i].activeOk /\ fCategory[i].archivedOk
    /\ KeyThreads(fCategory[i].active) \cup KeyThreads(fCategory[i].archived) # {}}

\* The forums whose thread lists cannot be fetched.
Failing == {i \in 1..Len(fCategory) :
    fCategory[i].type = "forum" /\ (~fCategory[i].activeOk \/ ~fCategory[i].archivedOk)}

Lowest(S) == CHOOSE i \in S : \A j \in S : i <= j

\* C11: with no identity supplied, whenever some forum of the category, at
\* any position, holds a thread whose name starts with the ticket key,
\* findUserForum returns the first such forum in iteration order and a thread
\* of it whose name starts with the key.
C11_Tier3Complete ==
    (fPc = "done" /\ fUserId = NoUser /\ fUser = NoUser /\ Holders # {}) =>
        /\ fResult.tiers = {3}
        /\ fResult.userForum = Lowest(Holders)
        /\ fResult.ticketThread \in
              KeyThreads(fCategory[fResult.userForum].active)
              \cup KeyThreads(fCategory[fResult.userForum].archived)

C11_Witness ==
    /\ fPc = "done"
    /\ fUserId = NoUser /\ fUser = NoUser
    /\ Len(fCategory) = MaxForums
    /\ Holders = {MaxForums}
    /\ fResult.userForum = MaxForums
    /\ fResult.ticketThread # NoThread

\* C12: whenever Tier 3 is consulted, a forum whose thread fetch fails is
\* skipped and nothing more: it is never the forum returned, and the forums
\* after it are searched as if it were not there; findUserForum resolves to
\* a result in every case.
C12_Tier3SkipsFailing ==
    (fPc = "done" /\ 3 \in fResult.tiers) =>
        /\ fResult.userForum \notin Failing
        /\ fResult.userForum = IF Holders = {} THEN NoForum ELSE Lowest(Holders)
        /\ (fResult.userForum = NoForum) = (fResult.ticketThread = NoThread)

C12_Witness ==
    /\ fPc = "done"
    /\ 3 \in fResult.tiers
    /\ \E i \in Failing : i < fResult.userForum
    /\ fResult.ticketThread # NoThread

\* C13: a ticket thread that is only in a forum's archived list is returned,
\* by the Tier 3 search of that forum and by findTicketThread.
C13_ArchivedVisible ==
    /\ (fPc = "done" /\ 3 \in fResult.tiers /\ fResult.userForum # NoForum
         /\ KeyThreads(fCategory[fResult.userForum].active) = {}) =>
            fResult.ticketThread \in KeyThreads(fCategory[fResult.userForum].archived)
    /\ (fPc = "thread"
         /\ fCategory[fResult.userForum].activeOk /\ fCategory[fResult.userForum].archivedOk
         /\ KeyThreads(fCategory[fResult.userForum].active) = {}
         /\ KeyThreads(fCategory[fResult.userForum].archived) # {}) =>
            fResult.ticketThread \in KeyThreads(fCategory[fResult.userForum].archived)

C13_Witness ==
    /\ fPc = "thread"
    /\ KeyThreads(fCategory[fResult.userForum].active) = {}
    /\ fResult.ticketThread \in KeyThreads(fCategory[fResult.userForum].archived)
\* ---- lock claims ----

\* C16: an entry older than the TTL is removed by the next acquireLock, so a
\* pair acquired and never released can be acquired again once the TTL has
\* elapsed; stated for the oldest entries the clock of the model produces,
\* which are older than any TTL below MaxClock.
C16_StaleLockExpires ==
    (lRet.op = "acquire" /\ lRet.age >= MaxClock) => lRet.ret

\* C17: acquireLock on a pair returns true exactly when the pair is not held,
\* a pair being held from the acquireLock that returned true for it until
\* the releaseLock for it (no entry expires in this module); a call on
\* another ticket key or another action neither takes nor frees the pair.
C17_LockExclusion ==
    [][/\ (lRet'.op = "acquire" /\ now' = now) =>
             lRet'.ret = (<<lRet'.ticketKey, lRet'.action>> \notin held)
       /\ \A k \in TicketKeys, a \in LockActions :
             (<<k, a>> \in held') # (<<k, a>> \in held) =>
                 lRet'.ticketKey = k /\ lRet'.action = a]_vars

C17_Witness ==
    /\ lRet.op = "acquire" /\ ~lRet.ret
    /\ <<lRet.ticketKey, lRet.action>> \in held
    /\ \E p \in held : p # <<lRet.ticketKey, lRet.action>>
    /\ Cardinality(held) < Cardinality(TicketKeys \X LockActions)
\* ---- routing claims ----

\* The reaction reached the routing step: a user's reaction, fetched, on a
\* thread, with a ticket key found.
Reached ==
    /\ route # Pending
    /\ rx.gate \in {"public", "private", "partialOk"}
    /\ rx.emoji \in CHECKMARKS \cup DENY
    /\ jiraTicketKey(rx.name, rx.embeds) # NoKey

EmojiClass(emojiName) ==
    IF emojiName \in CHECKMARKS THEN "checkmark"
    ELSE IF emojiName \in DENY THEN "deny" ELSE "other"

C19_ClipboardSubmits ==
    (/\ route # Pending
     /\ rx.emoji = "clipboard"
     /\ rx.gate \in {"public", "private", "partialOk"}
     /\ jiraTicketKey(rx.name, rx.embeds) # NoKey) =>
        (route.handler = "submit") = (rx.parentCat = "working")

\* The first embed that yields a key, 0 when none does.
FirstKeyed(embeds) ==
    FindFirst(embeds, LAMBDA em :
        extractTicketKey(em.title) # NoKey \/ urlMatch(em.url) # NoKey)

ForumsNamedFor(u) ==
    {i \in 1..Len(chans) :
        chans[i].cat = "working" /\ chans[i].name = ForumNameOf(Username(u))}

\* C24: calls of findOrCreateUserTaskForum for the same user and category,
\* one after another or interleaved at the awaits, leave at most one forum
\* named tasks-<sanitized username> in the category, and every call that
\* returns a forum returns that one.
C24_ForumConverges ==
    \A u \in UserIds :
        /\ Cardinality(ForumsNamedFor(u)) <= 1
        /\ \A e \in EventIds :
              (ev[e].kind = "provision" /\ ev[e].actor = u /\ ev[e].pc = "done"
               /\ ev[e].forum # NoForum) => ForumsNamedFor(u) = {ev[e].forum}

\* C29: a ticket handler is called only for a reaction that is not a bot's,
\* lies on a public or private thread, carries an emoji of the checkmark or
\* deny lists and yields a ticket key from the thread name or an embed; a
\* partial reaction that cannot be fetched is dropped with no handler call.
C29_RoutingGuards ==
    /\ (route # Pending /\ route.handler # "none") =>
          /\ rx.gate \in {"public", "private", "partialOk"}
          /\ rx.emoji \in CHECKMARKS \cup DENY
          /\ \/ extractTicketKey(rx.name) # NoKey
             \/ FirstKeyed(rx.embeds) # 0
          /\ route.key # NoKey
    /\ (route # Pending /\ rx.gate = "partialFail") => route = NoRoute

C29_Witness ==
    /\ route = NoRoute
    /\ rx.gate = "partialFail"
    /\ rx.emoji \in CHECKMARKS
    /\ rx.parentId \in unassignedChannels
    /\ extractTicketKey(rx.name) # NoKey

\* ---- thread archiving claims ----
ArchiveCalls == {e \in EventIds : ev[e].kind \in ArchiveFns /\ ev[e].pc = "done"}

\* C30 as stated: each of archiveThread, archiveThreadWithDelay and
\* unarchiveThread never throws and returns a boolean: false for a missing
\* thread or a failed Discord call, true on success.
C30_BestEffortBoolean ==
    \A e \in ArchiveCalls :
        /\ ~ev[e].thrown
        /\ ev[e].ret \in {"true", "false"}
        /\ (ev[e].ret = "false") =
              (ev[e].thread = NoThread
               \/ (ev[e].kind # "archiveThreadWithDelay" /\ ~ev[e].ok))

\* C30, amended: archiveThread and unarchiveThread never throw and return a
\* boolean, false for a missing thread or a failed Discord call and true on
\* success; archiveThreadWithDelay never throws and returns no value, and the
\* callback it schedules never rejects.
C30_BestEffort ==
    /\ \A e \in ArchiveCalls :
          /\ ~ev[e].thrown
          /\ IF ev[e].kind = "archiveThreadWithDelay"
             THEN ev[e].ret = "undefined"
             ELSE /\ ev[e].ret \in {"true", "false"}
                  /\ (ev[e].ret = "false") = (ev[e].thread = NoThread \/ ~ev[e].ok)
    /\ \A tm \in timers : tm.fired => ~tm.rejected

\* A call of archiveThread whose setArchived failed has returned, and a call
\* of archiveThreadWithDelay has returned and its timer has fired.
C30_Witness ==
    /\ \E e \in ArchiveCalls :
          ev[e].kind = "archiveThread" /\ ev[e].thread # NoThread /\ ~ev[e].ok
    /\ \E e \in ArchiveCalls :
          /\ ev[e].kind = "archiveThreadWithDelay"
          /\ \E tm \in timers : tm.by = e /\ tm.fired

\* ---- forum naming claims ----

\* C31: the sanitization gives, for every username, a string of characters
\* of [a-z0-9] only, the same each time it is computed; applied to its own
\* result it returns that result; "Test.User_123!" gives "testuser123".
C31_SanitizeIdempotent ==
    /\ \A i \in 1..Len(sanitized) :
          /\ \A j \in 1..Len(sanitized[i]) : sanitized[i][j] \in AlphaNum
          /\ sanitized[i] = sanitized[1]
    /\ (uname = TestUser /\ sanitized # <<>>) =>
          sanitized[1] = <<"t", "e", "s", "t", "u", "s", "e", "r", "1", "2", "3">>

\* A username with an upper-case letter and a stripped character has been
\* sanitized twice.
C31_Witness ==
    /\ uname = <<"A", ".", "b">>
    /\ sanitized = << <<"a", "b">>, <<"a", "b">> >>

\* ---- concurrent review claims ----
CompletedThreads == {t \in 1..Len(threads) : StartsWith(threads[t].name, <<"D", " ">>)}

\* C32: when an approve and a deny of the same review thread are handled
\* concurrently, the bot never both creates a completed thread and posts a
\* denial notice.
C32_ApproveDenyExclusive ==
    ~(/\ CompletedThreads # {}
      /\ \E e \in EventIds : ev[e].kind = "deny" /\ InLog(e, "notice"))

\* ---- claim path claims ----

\* C33: the source thread of a claim is scheduled for deletion only if a
\* working thread for the ticket was created by that claim.
C33_DeleteOnlyWithThread ==
    \A tm \in timers :
        (tm.op = "delete" /\ ev[tm.by].kind = "claim") => ev[tm.by].thread # NoThread

\* ---- combined lookup claims ----

\* The forums of the category whose thread lists can be fetched and hold a
\* thread of the ticket.
Holding ==
    {i \in 1..Len(fCategory) :
        /\ fCategory[i].type = "forum"
        /\ fCategory[i].activeOk /\ fCategory[i].archivedOk
        /\ \E t \in 1..Len(fCategory[i].active \o fCategory[i].archived) :
              StartsWith((fCategory[i].active \o fCategory[i].archived)[t].name,
                         fKey \o <<":">>)}

\* C34: when some forum of the category holds a thread of the ticket, the
\* combined lookup (findUserForum, then findTicketThread in the forum found)
\* returns a thread.
C34_CombinedFinds ==
    (fPc = "combined" /\ Holding # {}) => fResult.thread # NoThread

\* ---- role check claims ----

\* C35: when the fetch of the actor's guild member fails during the PM check
\* of an approve or deny reaction or of /task done or /task deny, no backend
\* call is made for that event.
C35_FetchFailureBlocks ==
    \A e \in EventIds :
        InLog(e, "pm:fetchFailed") =>
            /\ ev[e].calls = 0
            /\ ~InLog(e, "backend:start")
            /\ ~InLog(e, "lookup")

\* /task done or /task deny by a PM whose member fetch failed has ended with
\* the permission reply.
C35_Witness ==
    \E e \in EventIds :
        /\ ev[e].kind \in {"cmdDone", "cmdDeny"}
        /\ ev[e].actor \in PMs
        /\ InLog(e, "pm:fetchFailed")
        /\ HasReply(e, {"denied"})
        /\ ev[e].pc = "done"

\* ---- deny ordering claims ----

\* C36: on a deny (reaction or /task deny) the deletion of the review thread
\* is scheduled only after the notification step has finished: no deletion
\* timer of the event on a review thread exists while the working thread is
\* still to be resolved, unarchived or notified.
C36_NotifyBeforeDelete ==
    \A tm \in timers :
        (/\ ev[tm.by].kind \in {"deny", "cmdDeny"}
         /\ tm.op = "delete"
         /\ threads[tm.thread].parent = ReviewForum)
        => ev[tm.by].pc \notin {"resolve", "unarchive", "notice"}

\* ---- ticket key matching claims ----

\* C37: the thread findTicketThread returns for ticket key K is named for K:
\* its name is K followed by ":".
C37_ExactKey ==
    (fPc = "thread" /\ fResult.ticketThread # NoThread) =>
        LET forum == fCategory[fResult.userForum]
            all == forum.active \o forum.archived
        IN \A i \in 1..Len(all) :
              all[i].id = fResult.ticketThread => StartsWith(all[i].name, fKey \o <<":">>)

\* ---- forum ownership claims ----

\* C38: the forum findOrCreateUserTaskForum returns for a user is that
\* user's: its permission overwrites allow the user, also when another user's
\* username sanitizes to the same string.
C38_ForumOfCaller ==
    \A e \in EventIds :
        (ev[e].kind = "provision" /\ ev[e].pc = "done" /\ ev[e].forum # NoForum) =>
            ev[e].actor \in chans[ev[e].forum].allow

\* ---- webhook client termination claims ----

\* C39: every request of the webhook client eventually returns to its
\* caller, whatever the backend does.
C39_RequestReturns == (rPc = "attempt") ~> (rPc = "returned")

\* C40: when attempt k of a request succeeds (its operation returns an
\* envelope), the client returns at once: that attempt is the last entry of
\* the trace, exactly k attempts were made with k - 1 waits before it, none
\* after it, and the request has returned.
C40_ReturnsAtOnce ==
    \A i \in 1..Len(rTrace) :
        (rTrace[i].ev = "fetch" /\ ~rTrace[i].failed) =>
            /\ i = Len(rTrace)
            /\ rPc = "returned"
            /\ rTrace[i].n \in 1..maxAttempts
            /\ Len(Fetches) = rTrace[i].n
            /\ Len(Sleeps) = rTrace[i].n - 1
            /\ rResult.success = IF rTrace[i].body = "absent" THEN "true"
                                 ELSE rTrace[i].body

\* The second attempt of a request succeeded after one wait of 1000 ms.
C40_Witness ==
    /\ rPc = "returned"
    /\ Len(rTrace) = 3
    /\ rTrace[1].ev = "fetch" /\ rTrace[1].failed
    /\ rTrace[2].ev = "sleep" /\ rTrace[2].ms = 1000
    /\ rTrace[3].ev = "fetch" /\ ~rTrace[3].failed /\ rTrace[3].n = 2
====
